---------------------------- MODULE Spec2Model ----------------------------
(***************************************************************************)
(* Model of the query cache of the graph retrieval backend                 *)
(* (src/src/cache/graph_query_cache.py): GraphQueryCache over a shared     *)
(* Redis store, the cache_graph_query decorator, and the graph writer that *)
(* invalidates the cache after a mutation.                                 *)
(*                                                                         *)
(* Python values and JSON documents are modelled as trees, so that         *)
(* json.dumps / json.loads are conversions that can lose information.      *)
(* Each Redis command is one atomic step; a handler is a sequence of such  *)
(* steps and handlers of different callers interleave between commands.    *)
(***************************************************************************)
EXTENDS Integers, Sequences, FiniteSets, TLC

(***************************************************************************)
(* Bounds of the model.                                                    *)
(***************************************************************************)
\* longest positional-args tuple given to cache_key
MaxArgs == 2

(***************************************************************************)
(* Python values.  Every value is a record of the same shape:              *)
(*   t     the Python type                                                 *)
(*   n     the number of an int                                            *)
(*   s     the text of a str, or str(x) of an object x                     *)
(*   items the elements of a list or tuple, the entries of a dict in       *)
(*         insertion order, or <<key, value>> of one dict entry            *)
(***************************************************************************)
PV(t, n, s, items) == [t |-> t, n |-> n, s |-> s, items |-> items]
PNone          == PV("none", 0, "", <<>>)
PInt(i)        == PV("int", i, "", <<>>)
PStr(s)        == PV("str", 0, s, <<>>)
PBool(b)       == PV("bool", IF b THEN 1 ELSE 0, "", <<>>)
PList(xs)      == PV("list", 0, "", xs)
PTuple(xs)     == PV("tuple", 0, "", xs)
PEntry(k, v)   == PV("entry", 0, "", <<k, v>>)
PDict(es)      == PV("dict", 0, "", es)
\* an object json cannot encode (a datetime, say); s is what str(x) gives
PObj(s)        == PV("obj", 0, s, <<>>)

(***************************************************************************)
(* Python's == : dicts are equal when they hold the same entries, in any   *)
(* insertion order; a list never equals a tuple.                           *)
(***************************************************************************)
RECURSIVE PyEq(_, _)
PyEq(a, b) ==
    IF a.t # b.t THEN FALSE
    ELSE IF a.t = "dict" THEN
        /\ Len(a.items) = Len(b.items)
        /\ \A i \in DOMAIN a.items : \E j \in DOMAIN b.items :
              /\ PyEq(a.items[i].items[1], b.items[j].items[1])
              /\ PyEq(a.items[i].items[2], b.items[j].items[2])
    ELSE IF a.t \in {"list", "tuple", "entry"} THEN
        /\ Len(a.items) = Len(b.items)
        /\ \A i \in DOMAIN a.items : PyEq(a.items[i], b.items[i])
    ELSE a = b

(***************************************************************************)
(* JSON documents (what the text written to the store denotes):            *)
(* same record shape, t in null / number / string / array / object;        *)
(* an object's items are its members, in the order of the text.            *)
(***************************************************************************)
JNull        == PV("null", 0, "", <<>>)
JNum(i)      == PV("number", i, "", <<>>)
JStr(s)      == PV("string", 0, s, <<>>)
JBool(n)     == PV("boolean", n, "", <<>>)
JArr(xs)     == PV("array", 0, "", xs)
JMem(k, v)   == PV("member", 0, k, <<v>>)
JObj(ms)     == PV("object", 0, "", ms)

(***************************************************************************)
(* Order of the strings of the model under Python's < (code points).       *)
(***************************************************************************)
StrOrder == <<"1", "2", "a", "args", "b", "c", "kwargs", "max_depth", "method", "top_k">>
StrRank(s) == IF \E i \in DOMAIN StrOrder : StrOrder[i] = s
              THEN CHOOSE i \in DOMAIN StrOrder : StrOrder[i] = s
              ELSE Len(StrOrder) + 1

\* sorted(...) of a sequence of records by the rank of the text rec.s (insertion sort)
RECURSIVE InsertByName(_, _)
InsertByName(m, sorted) ==
    IF sorted = <<>> THEN <<m>>
    ELSE IF StrRank(m.s) < StrRank(Head(sorted).s) THEN <<m>> \o sorted
    ELSE <<Head(sorted)>> \o InsertByName(m, Tail(sorted))

RECURSIVE SortByName(_)
SortByName(ms) ==
    IF ms = <<>> THEN <<>> ELSE InsertByName(Head(ms), SortByName(Tail(ms)))

\* json's coercion of a dict key to a member name: a str as it is, an int as its digits
KeyName(k) == IF k.t = "int" THEN ToString(k.n) ELSE k.s

(***************************************************************************)
(* json.dumps(value, sort_keys=sortKeys, default=str)                      *)
(***************************************************************************)
RECURSIVE json_dumps(_, _)
json_dumps(v, sortKeys) ==
    CASE v.t = "none"  -> JNull
      [] v.t = "int"   -> JNum(v.n)
      [] v.t = "str"   -> JStr(v.s)
      [] v.t = "bool"  -> JBool(v.n)
      [] v.t \in {"list", "tuple"} ->
            JArr([i \in DOMAIN v.items |-> json_dumps(v.items[i], sortKeys)])
      [] v.t = "dict"  ->
            LET ms == [i \in DOMAIN v.items |->
                         JMem(KeyName(v.items[i].items[1]),
                              json_dumps(v.items[i].items[2], sortKeys))]
            IN  JObj(IF sortKeys THEN SortByName(ms) ELSE ms)
      [] OTHER         -> JStr(v.s)

(***************************************************************************)
(* json.loads(text)                                                        *)
(***************************************************************************)
RECURSIVE json_loads(_)
json_loads(j) ==
    CASE j.t = "null"   -> PNone
      [] j.t = "number" -> PInt(j.n)
      [] j.t = "string" -> PStr(j.s)
      [] j.t = "boolean" -> PV("bool", j.n, "", <<>>)
      [] j.t = "array"  -> PList([i \in DOMAIN j.items |-> json_loads(j.items[i])])
      [] OTHER          ->
            PDict([i \in DOMAIN j.items |->
                     PEntry(PStr(j.items[i].s), json_loads(j.items[i].items[1]))])

(***************************************************************************)
(* hashlib.sha256(key_json.encode()).hexdigest()[:16], idealised as a      *)
(* collision-free digest: two digests are equal exactly when the hashed    *)
(* texts are.                                                              *)
(***************************************************************************)
sha256_hex16(key_json) == [alg |-> "sha256/16", of |-> key_json]

(***************************************************************************)
(* Store keys.  The key string ns + name + ':' + digest is kept as its     *)
(* three parts; the counters "cache:hits" and "cache:misses" are keys of   *)
(* the same store, with no digest part.                                    *)
(***************************************************************************)
NoDigest == [alg |-> "none", of |-> JNull]
Key(ns, name, digest) == [ns |-> ns, name |-> name, digest |-> digest]
HitsKey   == Key("cache:", "hits", NoDigest)
MissesKey == Key("cache:", "misses", NoDigest)

default_key_prefix == "graph:query:"

(***************************************************************************)
(* GraphQueryCache.cache_key(method, args, kwargs)                         *)
(*   args   a sequence of Python values (the tuple)                        *)
(*   kwargs PNone or a PDict                                               *)
(***************************************************************************)
\* a key derived from the method name and the keyword arguments alone
key_data_without_args(method, args, kwargs) ==
    PDict(<< PEntry(PStr("method"), PStr(method)),
             PEntry(PStr("kwargs"), IF kwargs.t = "dict" THEN kwargs ELSE PDict(<<>>)) >>)

key_data(method, args, kwargs) ==
    LET kw == IF kwargs.t = "dict" THEN kwargs ELSE PDict(<<>>)
        byKey == SortByName([i \in DOMAIN kw.items |->
                     [kw.items[i] EXCEPT !.s = KeyName(kw.items[i].items[1])]])
    IN  PDict(<< PEntry(PStr("method"), PStr(method)),
                 PEntry(PStr("args"), PTuple(args)),
                 PEntry(PStr("kwargs"),
                        PDict([i \in DOMAIN byKey |-> [byKey[i] EXCEPT !.s = ""]])) >>)

key_json(method, args, kwargs) == json_dumps(key_data(method, args, kwargs), TRUE)

cache_key(prefix, method, args, kwargs) ==
    Key(prefix, method, sha256_hex16(key_json(method, args, kwargs)))

(***************************************************************************)
(* State.                                                                  *)
(***************************************************************************)
VARIABLES
    keyA,       \* a first call of cache_key: its arguments and its result
    keyB,       \* a second call of cache_key
    store,      \* the Redis keyspace: key -> [val: JSON document, ttl: seconds, 0 = none]
    up,         \* whether the store answers commands (FALSE: every command raises)
    client,     \* per caller: self.redis_client ("unbuilt", "connected" or "none")
    pc,         \* per caller: the position inside the handler it is running
    fr,         \* per caller: arguments and locals of the running handler
    ret,        \* per caller: what the last finished handler returned
    graphVer,   \* version of the knowledge graph (raised by the graph writer)
    shadow,     \* history: key -> the Python value of the last set that returned True
                \*          and has not been deleted, invalidated or expired since
    invalidated,\* history: highest graph version whose invalidation has completed
    nCalls,     \* history: number of handler calls started
    getsDone,   \* history: number of get calls that reached the store and finished
    graph,      \* the knowledge graph the Cypher queries run on: its relationships
    qcall,      \* the last call of a query helper, query or fusion: inputs and result
    run,        \* the retriever and its call of run in flight: driver, inputs, progress, result
    singleton   \* the module global _graph_cache, the instances constructed so far and
                \* each caller's position inside get_graph_cache

keyVars == <<keyA, keyB>>
queryVars == <<graph, qcall, run, singleton>>
cacheVars == <<store, up, client, pc, fr, ret, graphVer, shadow, invalidated, nCalls, getsDone>>
vars == <<keyA, keyB, store, up, client, pc, fr, ret, graphVer, shadow, invalidated, nCalls, getsDone,
          graph, qcall, run, singleton>>

NoCall == [done |-> FALSE, method |-> "", args |-> <<>>, kwargs |-> PNone,
           json |-> JNull, key |-> Key("", "", NoDigest)]

(***************************************************************************)
(* Inputs of cache_key.                                                    *)
(***************************************************************************)
Methods == {"run", "search"}
ArgVals == {PInt(1), PList(<<PInt(1)>>), PTuple(<<PInt(1)>>)}
RECURSIVE ArgSeqs(_)
ArgSeqs(n) == IF n = 0 THEN {<<>>}
              ELSE ArgSeqs(n - 1) \cup
                   {Append(a, v) : a \in {x \in ArgSeqs(n - 1) : Len(x) = n - 1}, v \in ArgVals}
KwargsSet == { PNone,
               PDict(<<PEntry(PStr("a"), PInt(2))>>),
               PDict(<<PEntry(PStr("a"), PInt(2)), PEntry(PStr("b"), PInt(1))>>),
               PDict(<<PEntry(PStr("b"), PInt(1)), PEntry(PStr("a"), PInt(2))>>) }

KeyCall(m, a, kw) ==
    [done |-> TRUE, method |-> m, args |-> a, kwargs |-> kw,
     json |-> key_json(m, a, kw), key |-> cache_key(default_key_prefix, m, a, kw)]

KeyIdle == keyA = NoCall /\ keyB = NoCall

CacheKeyFirst ==
    /\ ~keyA.done
    /\ \E m \in Methods, a \in ArgSeqs(MaxArgs), kw \in KwargsSet : keyA' = KeyCall(m, a, kw)
    /\ UNCHANGED <<keyB, queryVars>>

CacheKeySecond ==
    /\ keyA.done /\ ~keyB.done
    /\ \E m \in Methods, a \in ArgSeqs(MaxArgs), kw \in KwargsSet : keyB' = KeyCall(m, a, kw)
    /\ UNCHANGED <<keyA, queryVars>>

(***************************************************************************)
(* The cache machine.                                                      *)
(***************************************************************************)
\* callers: request handlers or worker processes, each holding a GraphQueryCache
Procs == {"w1", "w2"}

\* calls started in one behaviour
MaxCalls == 3
\* graph mutations in one behaviour
MaxVer == 1
\* key slots one SCAN call covers (the code asks for count=100 of a large keyspace)
ScanBatch == 2

default_ttl == 300

\* the queries of the model: a decorated method's name and arguments
Query(m, a, kw) == [method |-> m, args |-> a, kwargs |-> kw]
Q1 == Query("run", <<PStr("a")>>, PNone)
Q2 == Query("run", <<PStr("b")>>, PNone)
Q3 == Query("search", <<PStr("a")>>, PNone)
Queries == {Q1, Q2, Q3}
\* a method that returns a tuple holding an object json cannot encode, and one
\* whose result is cut to the top_k its object was configured with
Q4 == Query("paths", <<PStr("a")>>, PNone)
Q5 == Query("retrieve", <<PStr("a")>>, PNone)
\* a method whose name begins with the name of another
Q6 == Query("run_all", <<PStr("a")>>, PNone)
\* the top_k each caller's object was constructed with
top_k_of == [p \in Procs |-> IF p = "w1" THEN 2 ELSE 1]
KeyOf(q) == cache_key(default_key_prefix, q.method, q.args, q.kwargs)
CacheKeys == {KeyOf(q) : q \in Queries}
\* every key the store can hold: the slots a SCAN iterates over
AllKeys == CacheKeys \cup {HitsKey, MissesKey}

\* optional values: a GET reply (JSON text or nil), a remembered Python value
Absent  == [some |-> FALSE, val |-> JNull]
Some(v) == [some |-> TRUE, val |-> v]
NoValue == [some |-> FALSE, val |-> PNone]

\* glob patterns ns + "*" (name = "*") and ns + name + ":*"
Pattern(ns, name) == [ns |-> ns, name |-> name]

\* the characters of the key prefixes and method names in use
Chars(s) ==
    CASE s = ""             -> <<>>
      [] s = "graph:query:" -> <<"g", "r", "a", "p", "h", ":", "q", "u", "e", "r", "y", ":">>
      [] s = "cache:"       -> <<"c", "a", "c", "h", "e", ":">>
      [] s = "hits"         -> <<"h", "i", "t", "s">>
      [] s = "misses"       -> <<"m", "i", "s", "s", "e", "s">>
      [] s = "run"          -> <<"r", "u", "n">>
      [] s = "run_all"      -> <<"r", "u", "n", "_", "a", "l", "l">>
      [] s = "search"       -> <<"s", "e", "a", "r", "c", "h">>
      [] s = "paths"        -> <<"p", "a", "t", "h", "s">>
      [] s = "retrieve"     -> <<"r", "e", "t", "r", "i", "e", "v", "e">>

\* hexdigest()[:16]
digest_length == 16
\* the digest as text: digest_length hexadecimal digits, each written "x"
hex_text(digest) == [i \in 1..digest_length |-> "x"]

\* the key as the store holds it: f"{self.key_prefix}{method}:{key_hash}", or the
\* name of a counter
key_text(k) ==
    Chars(k.ns) \o Chars(k.name) \o
    (IF k.digest = NoDigest THEN <<>> ELSE <<":">> \o hex_text(k.digest))

\* a method pattern written without the colon after the method name
pattern_text_without_separator(pat) ==
    IF pat.name = "*" THEN Chars(pat.ns) \o <<"*">>
    ELSE Chars(pat.ns) \o Chars(pat.name) \o <<"*">>

\* the pattern as given to SCAN: "graph:query:*", "graph:query:run:*"
pattern_text(pat) ==
    IF pat.name = "*" THEN Chars(pat.ns) \o <<"*">>
    ELSE Chars(pat.ns) \o Chars(pat.name) \o <<":", "*">>

\* Redis glob matching: "*" stands for any run of characters, every other
\* character of these patterns for itself
RECURSIVE glob_match(_, _)
glob_match(pattern, text) ==
    IF pattern = <<>> THEN text = <<>>
    ELSE IF Head(pattern) = "*" THEN
        \/ glob_match(Tail(pattern), text)
        \/ text # <<>> /\ glob_match(pattern, Tail(text))
    ELSE text # <<>> /\ Head(text) = Head(pattern) /\ glob_match(Tail(pattern), Tail(text))

Match(pat, k) == glob_match(pattern_text(pat), key_text(k))

NoFrame ==
    [op |-> "", key |-> Key("", "", NoDigest), val |-> PNone, ttl |-> PNone,
     nx |-> FALSE, pat |-> Pattern("", ""), q |-> Query("", <<>>, PNone),
     cache_none |-> FALSE,
     data |-> Absent,       \* get: the GET reply
     todo |-> {},           \* invalidate_pattern: slots the cursor has not covered
     keys |-> {},           \* invalidate_pattern: the batch SCAN returned
     count |-> 0,           \* deleted_count / cached_count / hits read by get_stats
     batch |-> <<>>,        \* warm_cache: the queries argument
     queue |-> <<>>,        \* warm_cache: entries still to write
     \* history of the call
     err |-> FALSE,         \* a store error was caught inside the call
     removed |-> 0,         \* keys the call really removed from (warm_cache: wrote
                            \* to) the store
     expect |-> NoValue,    \* get: shadow[key] when the store was read
     seen |-> 0,            \* get: the counter's value when the store was read;
                            \* reset_stats: the gets completed when it started
     hit |-> FALSE,         \* the decorated call was served from the cache
     execs |-> 0,           \* executions of the wrapped function
     floor |-> 0]           \* graph version: at the start of an invalidation, or
                            \* the invalidated version when a decorated call started

Returned(v) == [val |-> v, raised |-> FALSE]
Raised      == [val |-> PNone, raised |-> TRUE]

(***************************************************************************)
(* Redis commands, each atomic on the keyspace.                            *)
(***************************************************************************)
redis_get(st, k) == IF k \in DOMAIN st THEN Some(st[k].val) ELSE Absent
redis_put(st, k, j, ttl) ==
    [x \in DOMAIN st \cup {k} |-> IF x = k THEN [val |-> j, ttl |-> ttl] ELSE st[x]]
redis_del(st, ks) == [x \in DOMAIN st \ ks |-> st[x]]
\* INCR: a missing key counts from 0; an expiry is kept
redis_incr(st, k) ==
    IF k \in DOMAIN st THEN [st EXCEPT ![k].val = JNum(@.n + 1)]
    ELSE redis_put(st, k, JNum(1), 0)
\* INCR of a value that is no integer is an error reply
IncrRaises(st, k) == k \in DOMAIN st /\ st[k].val.t # "number"

ShadowPut(sh, k, v) == [x \in DOMAIN sh \cup {k} |-> IF x = k THEN v ELSE sh[x]]
ShadowDrop(sh, ks)  == [x \in DOMAIN sh \ ks |-> sh[x]]
ShadowOf(sh, k)     == IF k \in DOMAIN sh THEN Some(sh[k]) ELSE NoValue

Max(a, b) == IF a >= b THEN a ELSE b
Min(a, b) == IF a <= b THEN a ELSE b

\* json.dumps raises TypeError for a dict key that is no str, int, bool or None
RECURSIVE Serializable(_)
Serializable(v) ==
    CASE v.t = "dict" ->
            \A i \in DOMAIN v.items :
                /\ v.items[i].items[1].t \in {"str", "int", "bool", "none"}
                /\ Serializable(v.items[i].items[2])
      [] v.t \in {"list", "tuple"} -> \A i \in DOMAIN v.items : Serializable(v.items[i])
      [] OTHER -> TRUE

(***************************************************************************)
(* Steps of one caller.  A handler's entry check and its first store       *)
(* command are one step; every later store command is a step of its own.   *)
(***************************************************************************)
\* an entry check that never takes the no-op branch
NoClient_never(c) == FALSE

\* if not self.redis_client: (the no-op branch at the head of every handler)
NoClient(c) == c # "connected"

Begin(p) ==
    /\ pc[p] = "idle"
    /\ nCalls < MaxCalls
    /\ nCalls' = nCalls + 1
    /\ UNCHANGED <<keyVars, queryVars>>

Finish(p, f, r) ==
    /\ pc' = [pc EXCEPT ![p] = "done"]
    /\ fr' = [fr EXCEPT ![p] = f]
    /\ ret' = [ret EXCEPT ![p] = r]

Goto(p, f, label) ==
    /\ pc' = [pc EXCEPT ![p] = label]
    /\ fr' = [fr EXCEPT ![p] = f]
    /\ UNCHANGED ret

\* the caller takes the result and is free for its next call
Return(p) ==
    /\ pc[p] = "done"
    /\ pc' = [pc EXCEPT ![p] = "idle"]
    /\ fr' = [fr EXCEPT ![p] = NoFrame]
    /\ ret' = [ret EXCEPT ![p] = Returned(PNone)]
    /\ UNCHANGED <<store, up, client, graphVer, shadow, invalidated, nCalls, getsDone, keyA, keyB, graph, qcall, run, singleton>>

(***************************************************************************)
(* GraphQueryCache.get                                                     *)
(***************************************************************************)
\* what get hands back: to its caller, or to the decorator's wrapper (lines 389-392)
GetReturn(p, f, v) ==
    /\ getsDone' = getsDone + 1
    /\ IF f.op = "get" THEN Finish(p, f, Returned(v))
       ELSE IF v # PNone THEN Finish(p, [f EXCEPT !.hit = TRUE], Returned(v))
       ELSE Goto(p, f, "w_exec")

\* the two counters taken for one another
CounterFor_swapped(data) == IF data.some THEN MissesKey ELSE HitsKey

\* the counter get increments for a GET reply
CounterFor(data) == IF data.some THEN HitsKey ELSE MissesKey
CounterValue(st, c) == IF c \in DOMAIN st /\ st[c].val.t = "number" THEN st[c].val.n ELSE 0

\* a counter bumped by writing back the value read earlier plus one
get_bump_read_then_write(st, c, seen) == redis_put(st, c, JNum(seen + 1), 0)

\* self.redis_client.incr(counter): one atomic command (seen, the counter's value
\* when the key was read, plays no part)
get_bump(st, c, seen) == redis_incr(st, c)

\* data = self.redis_client.get(key)
GetRead(p, f) ==
    IF ~up THEN
        /\ GetReturn(p, [f EXCEPT !.err = TRUE], PNone)
        /\ UNCHANGED <<store, shadow>>
    ELSE
        /\ Goto(p, [f EXCEPT !.data = redis_get(store, f.key),
                             !.expect = ShadowOf(shadow, f.key),
                             !.seen = CounterValue(store, CounterFor(redis_get(store, f.key)))],
                "get_incr")
        /\ UNCHANGED <<store, shadow, getsDone>>

\* self.redis_client.incr(...) and the return
GetIncr(p) ==
    /\ pc[p] = "get_incr"
    /\ LET f == fr[p]
           c == CounterFor(f.data)
       IN  IF ~up \/ IncrRaises(store, c) THEN
               /\ GetReturn(p, [f EXCEPT !.err = TRUE], PNone)
               /\ UNCHANGED <<store, shadow>>
           ELSE
               /\ store' = get_bump(store, c, f.seen)
               /\ shadow' = ShadowDrop(shadow, {c})
               /\ GetReturn(p, f, IF f.data.some THEN json_loads(f.data.val) ELSE PNone)
    /\ UNCHANGED <<up, client, graphVer, invalidated, nCalls, keyA, keyB, graph, qcall, run, singleton>>

StartGet(p, k) ==
    /\ Begin(p)
    /\ LET f == [NoFrame EXCEPT !.op = "get", !.key = k]
       IN  IF NoClient(client[p]) THEN
               /\ Finish(p, f, Returned(PNone))
               /\ UNCHANGED <<store, shadow, getsDone>>
           ELSE GetRead(p, f)
    /\ UNCHANGED <<up, client, graphVer, invalidated>>

(***************************************************************************)
(* GraphQueryCache.set                                                     *)
(***************************************************************************)
\* a ttl of 0 taken as given
EffectiveTtl_as_given(ttl) == IF ttl.t = "none" THEN default_ttl ELSE ttl.n

\* ttl = ttl or self.default_ttl
EffectiveTtl(ttl) == IF ttl.t = "none" \/ ttl.n = 0 THEN default_ttl ELSE ttl.n

\* a conditional store that overwrites like the unconditional one
set_outcome_ignoring_nx(st, isUp, k, v, ttl, nx) ==
    IF ~Serializable(v) THEN [ok |-> FALSE, store |-> st, err |-> FALSE]
    ELSE IF ~isUp \/ EffectiveTtl(ttl) <= 0 THEN [ok |-> FALSE, store |-> st, err |-> TRUE]
    ELSE [ok |-> TRUE,
          store |-> redis_put(st, k, json_dumps(v, FALSE), EffectiveTtl(ttl)),
          err |-> FALSE]

\* the outcome of set's body on a connected client:
\* [ok: the return value, store: the keyspace afterwards, err: a store error was caught]
set_outcome(st, isUp, k, v, ttl, nx) ==
    IF ~Serializable(v) THEN [ok |-> FALSE, store |-> st, err |-> FALSE]
    ELSE IF ~isUp THEN [ok |-> FALSE, store |-> st, err |-> TRUE]
    ELSE IF EffectiveTtl(ttl) <= 0 THEN [ok |-> FALSE, store |-> st, err |-> TRUE]
    ELSE IF nx /\ k \in DOMAIN st THEN [ok |-> FALSE, store |-> st, err |-> FALSE]
    ELSE [ok |-> TRUE,
          store |-> redis_put(st, k, json_dumps(v, FALSE), EffectiveTtl(ttl)),
          err |-> FALSE]

\* what set hands back: to its caller, to warm_cache's loop (lines 348-349), or to
\* the decorator's wrapper, which returns the computed result (lines 402-407)
SetReturn(p, f, ok) ==
    CASE f.op = "set"     -> Finish(p, f, Returned(PBool(ok)))
      [] f.op = "wrapper" -> Finish(p, f, Returned(f.val))
      [] OTHER ->
            LET g == [f EXCEPT !.count = @ + (IF ok THEN 1 ELSE 0), !.queue = Tail(@),
                               !.removed = @ + (IF f.key \in DOMAIN store' /\ store' # store
                                                THEN 1 ELSE 0)]
            IN  IF g.queue = <<>> THEN Finish(p, g, Returned(PInt(g.count)))
                ELSE Goto(p, g, "warm_next")

SetBody(p, f) ==
    LET out == set_outcome(store, up, f.key, f.val, f.ttl, f.nx)
    IN  /\ UNCHANGED getsDone
        /\ store' = out.store
        /\ shadow' = IF out.ok THEN ShadowPut(shadow, f.key, f.val) ELSE shadow
        /\ SetReturn(p, [f EXCEPT !.err = @ \/ out.err], out.ok)

StartSet(p, k, v, ttl, nx) ==
    /\ Begin(p)
    /\ LET f == [NoFrame EXCEPT !.op = "set", !.key = k, !.val = v, !.ttl = ttl, !.nx = nx]
       IN  IF NoClient(client[p]) THEN
               /\ Finish(p, f, Returned(PBool(FALSE)))
               /\ UNCHANGED <<store, shadow, getsDone>>
           ELSE SetBody(p, f)
    /\ UNCHANGED <<up, client, graphVer, invalidated>>

(***************************************************************************)
(* GraphQueryCache.delete                                                  *)
(***************************************************************************)
\* a delete that reports the key but leaves it in the store
delete_outcome_keeping_key(st, isUp, k) ==
    IF ~isUp THEN [ok |-> FALSE, store |-> st, err |-> TRUE]
    ELSE [ok |-> k \in DOMAIN st, store |-> st, err |-> FALSE]

\* deleted = self.redis_client.delete(key); return deleted > 0
delete_outcome(st, isUp, k) ==
    IF ~isUp THEN [ok |-> FALSE, store |-> st, err |-> TRUE]
    ELSE [ok |-> k \in DOMAIN st, store |-> redis_del(st, {k}), err |-> FALSE]

StartDelete(p, k) ==
    /\ Begin(p)
    /\ UNCHANGED getsDone
    /\ LET f == [NoFrame EXCEPT !.op = "delete", !.key = k]
       IN  IF NoClient(client[p]) THEN
               /\ Finish(p, f, Returned(PBool(FALSE)))
               /\ UNCHANGED <<store, shadow>>
           ELSE LET out == delete_outcome(store, up, k)
                IN  /\ store' = out.store
                    /\ shadow' = IF out.err THEN shadow ELSE ShadowDrop(shadow, {k})
                    /\ Finish(p, [f EXCEPT !.err = out.err], Returned(PBool(out.ok)))
    /\ UNCHANGED <<up, client, graphVer, invalidated>>

(***************************************************************************)
(* The store drops an entry whose TTL has run out.                         *)
(***************************************************************************)
Expire(k) ==
    /\ k \in DOMAIN store
    /\ store[k].ttl > 0
    /\ store' = redis_del(store, {k})
    /\ shadow' = ShadowDrop(shadow, {k})
    /\ UNCHANGED <<up, client, pc, fr, ret, graphVer, invalidated, nCalls, getsDone, keyA, keyB, graph, qcall, run, singleton>>

(***************************************************************************)
(* GraphQueryCache.invalidate_pattern and clear_all                        *)
(***************************************************************************)
\* the slots one SCAN call may cover: any ScanBatch of those not yet covered
Batches(todo) == {B \in SUBSET todo : Cardinality(B) = Min(ScanBatch, Cardinality(todo))}

\* a loop that stops after its first batch
scan_finished_after_first_batch(todo) == TRUE

\* if cursor == 0: break
scan_finished(todo) == todo = {}

\* an except branch that reports what was deleted before the error
invalidate_error_result_keeping_count(deleted_count) == deleted_count

\* what the handler returns after a store error (line 245)
invalidate_error_result(deleted_count) == 0

\* the return of invalidate_pattern; a finished invalidation of the whole namespace
\* covers every graph version written before it started
InvReturn(p, f, n) ==
    /\ Finish(p, f, Returned(PInt(n)))
    /\ invalidated' = IF ~f.err /\ f.pat = Pattern(default_key_prefix, "*")
                      THEN Max(invalidated, f.floor) ELSE invalidated

\* cursor, keys = self.redis_client.scan(cursor=cursor, match=pattern, count=100)
InvScan(p, f) ==
    IF ~up THEN
        /\ InvReturn(p, [f EXCEPT !.err = TRUE], invalidate_error_result(f.count))
        /\ UNCHANGED <<store, shadow>>
    ELSE \E B \in Batches(f.todo) :
        LET keys == {k \in B : k \in DOMAIN store /\ Match(f.pat, k)}
            g == [f EXCEPT !.todo = @ \ B, !.keys = keys]
        IN  /\ UNCHANGED <<store, shadow>>
            /\ IF keys # {} THEN Goto(p, g, "inv_del") /\ UNCHANGED invalidated
               ELSE IF scan_finished(g.todo) THEN InvReturn(p, g, g.count)
               ELSE Goto(p, g, "inv_scan") /\ UNCHANGED invalidated

InvScanNext(p) ==
    /\ pc[p] = "inv_scan"
    /\ InvScan(p, fr[p])
    /\ UNCHANGED <<up, client, graphVer, nCalls, getsDone, keyA, keyB, graph, qcall, run, singleton>>

\* deleted_count += self.redis_client.delete(*keys)
InvDelete(p) ==
    /\ pc[p] = "inv_del"
    /\ LET f == fr[p] IN
       IF ~up THEN
           /\ InvReturn(p, [f EXCEPT !.err = TRUE], invalidate_error_result(f.count))
           /\ UNCHANGED <<store, shadow>>
       ELSE
           LET n == Cardinality(f.keys \cap DOMAIN store)
               g == [f EXCEPT !.count = @ + n, !.removed = @ + n, !.keys = {}]
           IN  /\ store' = redis_del(store, f.keys)
               /\ shadow' = ShadowDrop(shadow, f.keys)
               /\ IF scan_finished(g.todo) THEN InvReturn(p, g, g.count)
                  ELSE Goto(p, g, "inv_scan") /\ UNCHANGED invalidated
    /\ UNCHANGED <<up, client, graphVer, nCalls, getsDone, keyA, keyB, graph, qcall, run, singleton>>

InvStart(p, op, pat) ==
    /\ Begin(p)
    /\ LET f == [NoFrame EXCEPT !.op = op, !.pat = pat, !.todo = AllKeys \cup DOMAIN store,
                                !.floor = graphVer]
       IN  IF NoClient(client[p]) THEN
               /\ Finish(p, f, Returned(PInt(0)))
               /\ UNCHANGED <<store, shadow, invalidated>>
           ELSE InvScan(p, f)
    /\ UNCHANGED <<up, client, graphVer, getsDone>>

StartInvalidate(p, pat) == InvStart(p, "invalidate_pattern", pat)

\* a clear_all over every key of the store
StartClearAll_every_key(p) == InvStart(p, "clear_all", Pattern("", "*"))

\* return self.invalidate_pattern(f"{self.key_prefix}*")
StartClearAll(p) == InvStart(p, "clear_all", Pattern(default_key_prefix, "*"))

(***************************************************************************)
(* GraphQueryCache.get_stats                                               *)
(***************************************************************************)
StatsDisabled == PDict(<<PEntry(PStr("enabled"), PBool(FALSE)),
                         PEntry(PStr("error"), PStr("Redis not connected"))>>)
StatsError    == PDict(<<PEntry(PStr("enabled"), PBool(TRUE)),
                         PEntry(PStr("error"), PStr("RedisError"))>>)
\* a float with two decimals, held in hundredths
PHundredths(n) == PV("float", n, "", <<>>)

\* round(x, 2) of x = num / den * 100, in hundredths: the nearest hundredth, a tie
\* going to the even one
round2_percent(num, den) ==
    LET q == (num * 10000) \div den
        r == (num * 10000) % den
    IN  IF 2 * r > den THEN q + 1
        ELSE IF 2 * r = den THEN q + (q % 2)
        ELSE q

\* a rate computed from the misses
hit_rate_percent_of_misses(hits, total_requests) ==
    IF total_requests > 0 THEN round2_percent(total_requests - hits, total_requests) ELSE 0

\* hit_rate = (hits / total_requests * 100) if total_requests > 0 else 0.0, then
\* round(hit_rate, 2), in hundredths
hit_rate_percent(hits, total_requests) ==
    IF total_requests > 0 THEN round2_percent(hits, total_requests) ELSE 0

\* the dict of lines 276-285 (the store's memory figure is left out)
Stats(hits, misses, size) ==
    PDict(<<PEntry(PStr("enabled"), PBool(TRUE)),
            PEntry(PStr("hits"), PInt(hits)),
            PEntry(PStr("misses"), PInt(misses)),
            PEntry(PStr("total_requests"), PInt(hits + misses)),
            PEntry(PStr("hit_rate_percent"), PHundredths(hit_rate_percent(hits, hits + misses))),
            PEntry(PStr("cache_size_keys"), PInt(size)),
            PEntry(PStr("default_ttl_seconds"), PInt(default_ttl))>>)

\* hits = int(self.redis_client.get("cache:hits") or 0)
StartStats(p) ==
    /\ Begin(p)
    /\ LET f == [NoFrame EXCEPT !.op = "get_stats"]
       IN  IF NoClient(client[p]) THEN Finish(p, f, Returned(StatsDisabled))
           ELSE IF ~up THEN Finish(p, [f EXCEPT !.err = TRUE], Returned(StatsError))
           ELSE Goto(p, [f EXCEPT !.count = CounterValue(store, HitsKey)], "stats_misses")
    /\ UNCHANGED <<store, up, client, graphVer, shadow, invalidated, getsDone>>

\* misses = int(self.redis_client.get("cache:misses") or 0), the key count and the return
StatsMisses(p) ==
    /\ pc[p] = "stats_misses"
    /\ LET f == fr[p] IN
       IF ~up THEN Finish(p, [f EXCEPT !.err = TRUE], Returned(StatsError))
       ELSE Finish(p, f, Returned(Stats(f.count, CounterValue(store, MissesKey),
                    Cardinality({k \in DOMAIN store : k.ns = default_key_prefix}))))
    /\ UNCHANGED <<store, up, client, graphVer, shadow, invalidated, nCalls, getsDone, keyA, keyB, graph, qcall, run, singleton>>

(***************************************************************************)
(* GraphQueryCache.reset_stats                                             *)
(***************************************************************************)
\* self.redis_client.set("cache:hits", 0); a store error is caught and logged
StartReset(p) ==
    /\ Begin(p)
    /\ LET f == [NoFrame EXCEPT !.op = "reset_stats", !.seen = getsDone]
       IN  IF NoClient(client[p]) THEN
               /\ Finish(p, f, Returned(PNone))
               /\ UNCHANGED store
           ELSE IF ~up THEN
               /\ Finish(p, [f EXCEPT !.err = TRUE], Returned(PNone))
               /\ UNCHANGED store
           ELSE
               /\ store' = redis_put(store, HitsKey, JNum(0), 0)
               /\ Goto(p, f, "reset_misses")
    /\ UNCHANGED <<up, client, graphVer, shadow, invalidated, getsDone>>

\* self.redis_client.set("cache:misses", 0)
ResetMisses(p) ==
    /\ pc[p] = "reset_misses"
    /\ IF ~up THEN
           /\ Finish(p, [fr[p] EXCEPT !.err = TRUE], Returned(PNone))
           /\ UNCHANGED store
       ELSE
           /\ store' = redis_put(store, MissesKey, JNum(0), 0)
           /\ Finish(p, fr[p], Returned(PNone))
    /\ UNCHANGED <<up, client, graphVer, shadow, invalidated, nCalls, getsDone, keyA, keyB, graph, qcall, run, singleton>>

(***************************************************************************)
(* GraphQueryCache.warm_cache                                              *)
(***************************************************************************)
\* one entry of the batch
WarmEntry(q, result, ttl) == [q |-> q, result |-> result, ttl |-> ttl]

\* an entry written with a plain set
warm_frame_overwriting(f) ==
    LET e == Head(f.queue)
    IN  [f EXCEPT !.key = KeyOf(e.q), !.val = e.result, !.ttl = e.ttl, !.nx = FALSE]

\* key = self.cache_key(...); self.set(key, query["result"], ttl=query.get("ttl"), nx=True)
warm_frame(f) ==
    LET e == Head(f.queue)
    IN  [f EXCEPT !.key = KeyOf(e.q), !.val = e.result, !.ttl = e.ttl, !.nx = TRUE]

\* what subscripting the entry raises before set is called: TypeError for an entry
\* that is no mapping (a str, None, a list), KeyError for a mapping without
\* 'method' or without 'result'
entry_error(e) ==
    IF "t" \in DOMAIN e THEN "TypeError"
    ELSE IF "q" \notin DOMAIN e \/ "result" \notin DOMAIN e THEN "KeyError"
    ELSE ""

\* a handler of KeyError alone
caught_by_warm_key_error_only(error) == error = "KeyError"

\* except (KeyError, TypeError) as e: ... continue
caught_by_warm(error) == error \in {"KeyError", "TypeError"}

\* one turn of the loop over the batch
WarmBody(p, f) ==
    LET error == entry_error(Head(f.queue))
        g == [f EXCEPT !.queue = Tail(@)]
    IN  IF error = "" THEN SetBody(p, warm_frame(f))
        ELSE /\ UNCHANGED <<store, shadow, getsDone>>
             /\ IF ~caught_by_warm(error) THEN Finish(p, g, Raised)
                ELSE IF g.queue = <<>> THEN Finish(p, g, Returned(PInt(g.count)))
                ELSE Goto(p, g, "warm_next")

WarmNext(p) ==
    /\ pc[p] = "warm_next"
    /\ WarmBody(p, fr[p])
    /\ UNCHANGED <<up, client, graphVer, invalidated, nCalls, keyA, keyB, graph, qcall, run, singleton>>

StartWarm(p, queries) ==
    /\ Begin(p)
    /\ LET f == [NoFrame EXCEPT !.op = "warm_cache", !.batch = queries, !.queue = queries]
       IN  IF NoClient(client[p]) \/ queries = <<>> THEN
               /\ Finish(p, f, Returned(PInt(0)))
               /\ UNCHANGED <<store, shadow, getsDone>>
           ELSE WarmBody(p, f)
    /\ UNCHANGED <<up, client, graphVer, invalidated>>

(***************************************************************************)
(* cache_graph_query: the wrapper around a decorated method                *)
(***************************************************************************)
\* what the wrapped method of caller p's object computes for query q from the graph
\* as it is now: search finds nothing and returns None, paths returns a tuple with an
\* object in it, retrieve returns the first top_k documents of its object
func_result(p, q, ver) ==
    CASE q.method = "search"   -> PNone
      [] q.method = "paths"    -> PTuple(<<PObj("GraphPath"), PInt(ver)>>)
      [] q.method = "retrieve" ->
            PList([i \in 1..top_k_of[p] |-> PStr(<<"doc1", "doc2">>[i])])
      [] OTHER                 -> PList(<<q.args[1], PInt(ver)>>)
VersionOf(result) == result.items[2].n

\* result = func(self, *args, **kwargs), and whether the result is stored (line 401)
WrapperExec(p) ==
    /\ pc[p] = "w_exec"
    /\ LET result == func_result(p, fr[p].q, graphVer)
           f == [fr[p] EXCEPT !.val = result, !.execs = @ + 1]
       IN  IF result # PNone \/ f.cache_none THEN Goto(p, f, "w_set")
           ELSE Finish(p, f, Returned(result))
    /\ UNCHANGED <<store, up, client, graphVer, shadow, invalidated, nCalls, getsDone, keyA, keyB, graph, qcall, run, singleton>>

\* func(self, *args, **kwargs) raises: the wrapper has no try, the exception leaves it
WrapperExecRaises(p) ==
    /\ pc[p] = "w_exec"
    /\ Finish(p, [fr[p] EXCEPT !.execs = @ + 1], Raised)
    /\ UNCHANGED <<store, up, client, graphVer, shadow, invalidated, nCalls, getsDone, keyA, keyB, graph, qcall, run, singleton>>

\* self.cache.set(cache_key, result, ttl=ttl); return result
WrapperSet(p) ==
    /\ pc[p] = "w_set"
    /\ SetBody(p, fr[p])
    /\ UNCHANGED <<up, client, graphVer, invalidated, nCalls, keyA, keyB, graph, qcall, run, singleton>>

StartWrapper(p, q, ttl, cache_none) ==
    /\ Begin(p)
    /\ LET f == [NoFrame EXCEPT !.op = "wrapper", !.q = q, !.key = KeyOf(q),
                                !.ttl = ttl, !.cache_none = cache_none,
                                !.floor = invalidated]
       IN  IF NoClient(client[p]) THEN
               /\ Finish(p, [f EXCEPT !.val = func_result(p, q, graphVer), !.execs = 1],
                         Returned(func_result(p, q, graphVer)))
               /\ UNCHANGED <<store, shadow, getsDone>>
           ELSE GetRead(p, f)
    /\ UNCHANGED <<up, client, graphVer, invalidated>>

(***************************************************************************)
(* GraphQueryCache.__init__ and _init_stats                                *)
(***************************************************************************)
\* redis.from_url(...); ping(): a store that does not answer leaves redis_client None
Construct(p) ==
    /\ client[p] = "unbuilt"
    /\ pc[p] = "idle"
    /\ IF up THEN
           /\ client' = [client EXCEPT ![p] = "connected"]
           /\ Goto(p, [NoFrame EXCEPT !.op = "__init__"], "init_hits")
       ELSE
           /\ client' = [client EXCEPT ![p] = "none"]
           /\ Finish(p, [NoFrame EXCEPT !.op = "__init__", !.err = TRUE], Returned(PNone))
    /\ UNCHANGED <<store, up, graphVer, shadow, invalidated, nCalls, getsDone, keyA, keyB, graph, qcall, run, singleton>>

\* _init_stats is outside the try of __init__: a store error in it leaves the
\* constructor by an exception and no instance is built
InitStep(p, label, next, counter, write) ==
    /\ pc[p] = label
    /\ IF ~up THEN
           /\ client' = [client EXCEPT ![p] = "unbuilt"]
           /\ Finish(p, [fr[p] EXCEPT !.err = TRUE], Raised)
           /\ UNCHANGED store
       ELSE
           /\ UNCHANGED client
           /\ IF write
              THEN /\ store' = redis_put(store, counter, JNum(0), 0)
                   /\ IF next = "done" THEN Finish(p, fr[p], Returned(PNone))
                      ELSE Goto(p, fr[p], next)
              ELSE /\ UNCHANGED store
                   /\ IF counter \in DOMAIN store
                      THEN IF counter = MissesKey THEN Finish(p, fr[p], Returned(PNone))
                           ELSE Goto(p, fr[p], "init_misses")
                      ELSE Goto(p, fr[p], next)
    /\ UNCHANGED <<up, graphVer, shadow, invalidated, nCalls, getsDone, keyA, keyB, graph, qcall, run, singleton>>

\* if not self.redis_client.exists("cache:hits"):
InitHitsExists(p)   == InitStep(p, "init_hits", "init_hits_set", HitsKey, FALSE)
\*     self.redis_client.set("cache:hits", 0)
InitHitsSet(p)      == InitStep(p, "init_hits_set", "init_misses", HitsKey, TRUE)
\* if not self.redis_client.exists("cache:misses"):
InitMissesExists(p) == InitStep(p, "init_misses", "init_misses_set", MissesKey, FALSE)
\*     self.redis_client.set("cache:misses", 0)
InitMissesSet(p)    == InitStep(p, "init_misses_set", "done", MissesKey, TRUE)

(***************************************************************************)
(* The environment: the store stops or resumes answering; the graph        *)
(* writer mutates the graph.                                               *)
(***************************************************************************)
StoreDown ==
    /\ up
    /\ up' = FALSE
    /\ UNCHANGED <<store, client, pc, fr, ret, graphVer, shadow, invalidated, nCalls, getsDone, keyA, keyB, graph, qcall, run, singleton>>

StoreUp ==
    /\ ~up
    /\ up' = TRUE
    /\ UNCHANGED <<store, client, pc, fr, ret, graphVer, shadow, invalidated, nCalls, getsDone, keyA, keyB, graph, qcall, run, singleton>>

Mutate ==
    /\ graphVer < MaxVer
    /\ graphVer' = graphVer + 1
    /\ UNCHANGED <<store, up, client, pc, fr, ret, shadow, invalidated, nCalls, getsDone, keyA, keyB, graph, qcall, run, singleton>>

(***************************************************************************)
(* The knowledge graph and the Cypher retrieval queries of                 *)
(* neo4j_optimized_queries.py.                                             *)
(*                                                                         *)
(* A node is named by its id.  Entity nodes carry the label Entity and a   *)
(* text; a document is a node with a CONTAINS_ENTITY relationship to an    *)
(* entity.  graph is the set of relationships [src, type, dst].            *)
(***************************************************************************)
EntityNodes == {"e1", "e2", "e3", "e4", "e5", "e6", "e7", "e8"}
DocNodes    == {"d1", "d2"}

\* e.text (two entities may carry the same text: e7 and e8 do)
TextOf(n) ==
    CASE n = "e1" -> "Skilled Worker visa"
      [] n = "e2" -> "Student visa"
      [] n = "e3" -> "English test"
      [] n = "e4" -> "visa test centre"
      [] n = "e5" -> "Visitor visa"
      [] n = "e6" -> "Graduate visa"
      [] n = "e7" -> "Family visa"
      [] n = "e8" -> "Family visa"
      [] OTHER -> ""

Rel(src, type, dst) == [src |-> src, type |-> type, dst |-> dst]
NoGraph == {}

\* CALL db.index.fulltext.queryNodes('entity_text_fulltext', entity_text)
\* YIELD node, score: the entities whose text holds the word, the better match first
fulltext_queryNodes(entity_text) ==
    CASE entity_text = "visa" ->
            {[node |-> "e1", score |-> 2]} \cup
            {[node |-> n, score |-> 1] : n \in {"e2", "e4", "e5", "e6", "e7", "e8"}}
      [] entity_text = "test" ->
            {[node |-> "e3", score |-> 2], [node |-> "e4", score |-> 1]}
      [] OTHER -> {}

\* UNWIND $entities AS entity_text CALL ...queryNodes(...) YIELD node, score
Matched(entities) ==
    UNION {fulltext_queryNodes(entities[i]) : i \in DOMAIN entities}

\* MATCH (d)-[:CONTAINS_ENTITY]->(e): the d of one e
ContainersOf(g, e) == {r.src : r \in {x \in g : x.type = "CONTAINS_ENTITY" /\ x.dst = e}}

(***************************************************************************)
(* ORDER BY ... LIMIT $limit over keyed rows [row, k1, k2]: rows come in   *)
(* ascending (k1, k2); rows with equal keys come in any order.             *)
(***************************************************************************)
Before(a, b) == a.k1 < b.k1 \/ (a.k1 = b.k1 /\ a.k2 < b.k2)

\* rows cut before the ordering: any limit of them
RECURSIVE limit_then_order(_, _)
limit_then_order(keyed, limit) ==
    IF limit = 0 \/ keyed = {} THEN {<<>>}
    ELSE UNION {{<<m.row>> \o s : s \in limit_then_order(keyed \ {m}, limit - 1)} : m \in keyed}

RECURSIVE order_by_limit(_, _)
order_by_limit(keyed, limit) ==
    IF limit = 0 \/ keyed = {} THEN {<<>>}
    ELSE LET first == {m \in keyed : \A r \in keyed : ~Before(r, m)}
         IN  UNION {{<<m.row>> \o s : s \in order_by_limit(keyed \ {m}, limit - 1)} : m \in first}

\* list[..n] of a list held as a sequence
Take(xs, n) == SubSeq(xs, 1, IF Len(xs) < n THEN Len(xs) ELSE n)

(***************************************************************************)
(* format_multihop_query                                                   *)
(***************************************************************************)
\* smallest and largest max_depth accepted (line 322)
multihop_min_depth == 1
multihop_max_depth == 5

\* the relationship types of the multihop_traversal pattern (line 127)
multihop_types == {"REQUIRES", "SATISFIED_BY", "DEPENDS_ON", "APPLIES_IF"}
\* the relationship types of the relationship_expansion pattern (line 101)
expansion_types == {"REQUIRES", "SATISFIED_BY", "DEPENDS_ON", "APPLIES_IF", "CAN_TRANSITION_TO"}

NoCypher == [name |-> "", types |-> {}, lo |-> 0, hi |-> 0, cap |-> 0]

\* NEO4J_QUERIES["multihop_traversal"].format(max_depth=max_depth): the pattern
\* [r:types*1..{max_depth}] and the filter length(path) <= {max_depth}
multihop_traversal_text(max_depth) ==
    [name |-> "multihop_traversal", types |-> multihop_types,
     lo |-> 1, hi |-> max_depth, cap |-> max_depth]

\* a check of the lower end only
depth_accepted_without_upper_bound(max_depth) == multihop_min_depth <= max_depth

\* 1 <= max_depth <= 5
depth_accepted(max_depth) ==
    multihop_min_depth <= max_depth /\ max_depth <= multihop_max_depth

\* [raised: ValueError, query: the text returned]
format_multihop_query(max_depth) ==
    IF ~depth_accepted(max_depth) THEN [raised |-> TRUE, query |-> NoCypher]
    ELSE [raised |-> FALSE, query |-> multihop_traversal_text(max_depth)]

\* depth: Traversal depth (1-4)
visualization_min_depth == 1
visualization_max_depth == 4
visualization_types == {"REQUIRES", "SATISFIED_BY", "CONTAINS_ENTITY"}

\* the replacement fields str.format finds in NEO4J_QUERIES["visualization_data"],
\* in the order of the text: every brace pair opens one, the map literals
\* {id: $entity_id}, {id: n.id, ...} and {source: ..., ...} as much as {depth}; the
\* name of a field is what stands before its colon (leading white space left out)
visualization_data_fields == <<"id", "depth", "depth", "id", "source">>

\* template.format(**kwargs) looks every field up by name, in order, and raises
\* KeyError at the first name that is no keyword argument
format_error(fields, names) ==
    IF \E i \in DOMAIN fields : fields[i] \notin names THEN "KeyError" ELSE ""

\* [raised, error: the exception raised, query: the text returned]
format_visualization_query(depth) ==
    IF ~(visualization_min_depth <= depth /\ depth <= visualization_max_depth) THEN
        [raised |-> TRUE, error |-> "ValueError", query |-> NoCypher]
    ELSE IF format_error(visualization_data_fields, {"depth"}) # "" THEN
        [raised |-> TRUE, error |-> format_error(visualization_data_fields, {"depth"}),
         query |-> NoCypher]
    ELSE
        [raised |-> FALSE, error |-> "",
         query |-> [name |-> "visualization_data", types |-> visualization_types,
                    lo |-> 0, hi |-> depth, cap |-> depth]]

(***************************************************************************)
(* The last call.                                                          *)
(***************************************************************************)
NoQuery == [op |-> "", depth |-> 0, raised |-> FALSE, error |-> "", query |-> NoCypher,
            entities |-> <<>>, limit |-> 0, rows |-> <<>>,
            direct |-> <<>>, expanded |-> <<>>, multihop |-> <<>>]

\* a retriever with its driver, no call of run made yet
NoRun == [driver |-> "connected", pc |-> "idle", query |-> "", entities |-> <<>>, top_k |-> 0,
          invoked |-> {}, pending |-> {}, failed |-> {}, finished |-> <<>>, store_calls |-> 0,
          direct |-> <<>>, expanded |-> <<>>, multihop |-> <<>>,
          raised |-> FALSE, documents |-> <<>>, graph_paths |-> <<>>]

\* the process before any call of get_graph_cache: _graph_cache is None (0), no
\* instance has been constructed and no caller is inside the function
NoSingleton ==
    [global |-> 0, instances |-> <<>>, returned |-> {}, calls |-> 0,
     pos |-> [p \in {"w1", "w2"} |-> "idle"],
     url |-> [p \in {"w1", "w2"} |-> ""],
     made |-> [p \in {"w1", "w2"} |-> 0]]

QueryIdle == graph = NoGraph /\ qcall = NoQuery /\ run = NoRun /\ singleton = NoSingleton

\* query = format_multihop_query(max_depth)
FormatMultihop(max_depth) ==
    /\ LET out == format_multihop_query(max_depth)
       IN  qcall' = [NoQuery EXCEPT !.op = "format_multihop_query", !.depth = max_depth,
                                    !.raised = out.raised, !.query = out.query]
    /\ UNCHANGED <<graph, run, singleton, keyVars, cacheVars>>

\* query = format_visualization_query(depth)
FormatVisualization(depth) ==
    /\ LET out == format_visualization_query(depth)
       IN  qcall' = [NoQuery EXCEPT !.op = "format_visualization_query", !.depth = depth,
                                    !.raised = out.raised, !.error = out.error,
                                    !.query = out.query]
    /\ UNCHANGED <<graph, run, singleton, keyVars, cacheVars>>

(***************************************************************************)
(* NEO4J_QUERIES["direct_entity_search"]                                   *)
(***************************************************************************)
\* most texts kept in matched_entities (line 85)
matched_entities_cap == 5

IsEntity(n) == n \in EntityNodes

\* MATCH (d)-[:CONTAINS_ENTITY]->(e) for the matched e: rows [doc_id, e, score]
direct_matches(g, entities) ==
    UNION {{[doc_id |-> d, e |-> m.node, score |-> m.score] : d \in ContainersOf(g, m.node)} :
            m \in Matched(entities)}

MaxOf(S) == CHOOSE x \in S : \A y \in S : y <= x
MinOf(S) == CHOOSE x \in S : \A y \in S : x <= y

\* a list cut nowhere
kept_texts_uncapped(texts) == {texts}

\* collect(DISTINCT e.text)[..5]: the order collect gives is not fixed, so any 5 of
\* the distinct texts may be the ones kept (held as a set)
kept_texts(texts) ==
    IF Cardinality(texts) <= matched_entities_cap THEN {texts}
    ELSE {K \in SUBSET texts : Cardinality(K) = matched_entities_cap}

\* RETURN DISTINCT d.id AS doc_id, collect(...)[..5], count(DISTINCT e), max(score):
\* the rows one document id may give (the aggregates make d.id the grouping key)
direct_rows_of(matches, d) ==
    LET mine == {m \in matches : m.doc_id = d}
    IN  {[doc_id |-> d, matched_entities |-> K,
          entity_count |-> Cardinality({m.e : m \in mine}),
          max_score |-> MaxOf({m.score : m \in mine})] :
            K \in kept_texts({TextOf(m.e) : m \in mine})}

\* the row sets the aggregation may give: one row per document id
RECURSIVE direct_row_sets_of(_, _)
direct_row_sets_of(matches, docs) ==
    IF docs = {} THEN {{}}
    ELSE LET d == CHOOSE x \in docs : TRUE
             rest == direct_row_sets_of(matches, docs \ {d})
         IN  UNION {{rs \cup {r} : rs \in rest} : r \in direct_rows_of(matches, d)}

direct_row_sets(g, entities) ==
    LET matches == direct_matches(g, entities)
    IN  direct_row_sets_of(matches, {m.doc_id : m \in matches})

\* ORDER BY max_score DESC, entity_count DESC
direct_keyed(rows) == {[row |-> r, k1 |-> 0 - r.max_score, k2 |-> 0 - r.entity_count] : r \in rows}

\* session.run(NEO4J_QUERIES["direct_entity_search"], entities=..., limit=...)
DirectSearch(entities, limit) ==
    /\ \E rs \in direct_row_sets(graph, entities) :
       \E out \in order_by_limit(direct_keyed(rs), limit) :
          qcall' = [NoQuery EXCEPT !.op = "direct_entity_search", !.entities = entities,
                                   !.limit = limit, !.rows = out]
    /\ UNCHANGED <<graph, run, singleton, keyVars, cacheVars>>

(***************************************************************************)
(* NEO4J_QUERIES["relationship_expansion"]                                 *)
(***************************************************************************)
\* a hop matched in either direction
expansion_hops_undirected(g, node) ==
    {[type |-> r.type, related |-> r.dst] :
        r \in {x \in g : x.src = node /\ x.type \in expansion_types /\ IsEntity(x.dst)}}
    \cup
    {[type |-> r.type, related |-> r.src] :
        r \in {x \in g : x.dst = node /\ x.type \in expansion_types /\ IsEntity(x.src)}}

\* MATCH (e)-[r:REQUIRES|SATISFIED_BY|DEPENDS_ON|APPLIES_IF|CAN_TRANSITION_TO]->(related:Entity)
expansion_hops(g, node) ==
    {[type |-> r.type, related |-> r.dst] :
        r \in {x \in g : x.src = node /\ x.type \in expansion_types /\ IsEntity(x.dst)}}

\* most texts kept in related_entities (line 111)
related_entities_cap == 3

\* RETURN DISTINCT d.id, e.text, type(r), related.text, collect(DISTINCT related.text)[..3],
\* score: the grouping key holds related.text, so the collected list is that one text
expansion_rows(g, entities) ==
    UNION {UNION {{[doc_id |-> d, source_entity |-> TextOf(m.node), relationship |-> h.type,
                    target_entity |-> TextOf(h.related),
                    related_entities |-> Take(<<TextOf(h.related)>>, related_entities_cap),
                    score |-> m.score] : d \in ContainersOf(g, h.related)} :
                  h \in expansion_hops(g, m.node)} :
            m \in Matched(entities)}

\* ORDER BY score DESC
expansion_keyed(rows) == {[row |-> r, k1 |-> 0 - r.score, k2 |-> 0] : r \in rows}

\* session.run(NEO4J_QUERIES["relationship_expansion"], entities=..., limit=...)
RelationshipExpansion(entities, limit) ==
    /\ \E out \in order_by_limit(expansion_keyed(expansion_rows(graph, entities)), limit) :
          qcall' = [NoQuery EXCEPT !.op = "relationship_expansion", !.entities = entities,
                                   !.limit = limit, !.rows = out]
    /\ UNCHANGED <<graph, run, singleton, keyVars, cacheVars>>

(***************************************************************************)
(* NEO4J_QUERIES["multihop_traversal"]                                     *)
(***************************************************************************)
\* the relationships of a path, as a set
RelsOf(path) == {path[i] : i \in DOMAIN path}

\* the directed paths of exactly k relationships of the given types from start; a
\* Cypher path never uses one relationship twice
RECURSIVE paths_of_length(_, _, _, _)
paths_of_length(g, types, start, k) ==
    IF k = 1 THEN {<<r>> : r \in {x \in g : x.src = start /\ x.type \in types}}
    ELSE UNION {{Append(p, r) : r \in {x \in g : /\ x.src = p[Len(p)].dst
                                                   /\ x.type \in types
                                                   /\ x \notin RelsOf(p)}} :
                 p \in paths_of_length(g, types, start, k - 1)}

\* MATCH path = (start)-[r:types*lo..hi]->(end:Entity) WHERE length(path) <= cap
multihop_paths(g, q, start) ==
    {p \in UNION {paths_of_length(g, q.types, start, k) : k \in q.lo..q.hi} :
        IsEntity(p[Len(p)].dst) /\ Len(p) <= q.cap}

\* most entries kept of traversal_path and of relationship_types (lines 136, 137)
path_list_cap == 5

\* [node IN nodes(path) | coalesce(node.text, node.name)][..5]
traversal_path(p) == Take(<<TextOf(p[1].src)>> \o [i \in DOMAIN p |-> TextOf(p[i].dst)], path_list_cap)
\* [rel IN relationships(path) | type(rel)][..5]
relationship_types(p) == Take([i \in DOMAIN p |-> p[i].type], path_list_cap)

\* the rows that reach the WITH: one per start, path and d
multihop_matches(g, q, entities) ==
    UNION {UNION {{[doc_id |-> d, length |-> Len(p), traversal_path |-> traversal_path(p),
                    relationship_types |-> relationship_types(p), score |-> m.score] :
                        d \in ContainersOf(g, p[Len(p)].dst)} :
                  p \in multihop_paths(g, q, m.node)} :
            m \in Matched(entities)}

\* WITH d.id AS doc_id, min(length(path)) AS hop_count, [...] AS traversal_path,
\* [...] AS relationship_types, score: every expression that is not an aggregate is
\* a grouping key
multihop_group_key(m) ==
    [doc_id |-> m.doc_id, traversal_path |-> m.traversal_path,
     relationship_types |-> m.relationship_types, score |-> m.score]

\* one row per group, hop_count the least length in the group; RETURN DISTINCT
multihop_rows(g, q, entities) ==
    LET matches == multihop_matches(g, q, entities)
    IN  {[doc_id |-> m.doc_id,
          hop_count |-> MinOf({x.length : x \in {y \in matches :
                                    multihop_group_key(y) = multihop_group_key(m)}}),
          traversal_path |-> m.traversal_path,
          relationship_types |-> m.relationship_types,
          score |-> m.score] : m \in matches}

\* ORDER BY hop_count ASC, score DESC
multihop_keyed(rows) == {[row |-> r, k1 |-> r.hop_count, k2 |-> 0 - r.score] : r \in rows}

\* query = format_multihop_query(max_depth); session.run(query, entities=..., limit=...)
MultihopTraversal(entities, limit) ==
    /\ qcall.op = "format_multihop_query" /\ ~qcall.raised
    /\ \E out \in order_by_limit(multihop_keyed(multihop_rows(graph, qcall.query, entities)), limit) :
          qcall' = [NoQuery EXCEPT !.op = "multihop_traversal", !.depth = qcall.depth,
                                   !.query = qcall.query, !.entities = entities,
                                   !.limit = limit, !.rows = out]
    /\ UNCHANGED <<graph, run, singleton, keyVars, cacheVars>>

(***************************************************************************)
(* Result fusion (merge and rank) of the graph retriever, as section 4.5   *)
(* of the specification gives it.  A strategy's result list is a sequence  *)
(* of documents [id, hop_count] (hop_count 0 where the strategy has none). *)
(* Scores are held exactly, in units of 1/300: 300 stands for 1.0.         *)
(***************************************************************************)
\* 1.0
direct_base_score == 300
\* 0.8
expanded_base_score == 240
\* 0.6
multihop_numerator == 180

Doc(id, hop_count) == [id |-> id, hop_count |-> hop_count]

\* a base score that grows with the distance
multihop_base_score_growing(hop_count) == multihop_numerator * hop_count

\* a base score that does not decay with the distance
multihop_base_score_flat(hop_count) == multihop_numerator

\* 0.6 / hop_count
multihop_base_score(hop_count) == multihop_numerator \div hop_count

IdsOf(docs) == {docs[i].id : i \in DOMAIN docs}

\* the strategies that found the document
found_by(direct, expanded, multihop, id) ==
    (IF id \in IdsOf(direct) THEN {"direct"} ELSE {}) \cup
    (IF id \in IdsOf(expanded) THEN {"expanded"} ELSE {}) \cup
    (IF id \in IdsOf(multihop) THEN {"multihop"} ELSE {})

\* hop_count of the document in the multihop list (0 if it is not there)
hop_count_of(multihop, id) ==
    IF id \in IdsOf(multihop)
    THEN multihop[CHOOSE i \in DOMAIN multihop :
                     /\ multihop[i].id = id
                     /\ \A j \in DOMAIN multihop : multihop[j].id = id => i <= j].hop_count
    ELSE 0

\* the sum of the base scores of the strategies that found the document
graph_score(direct, expanded, multihop, id) ==
    (IF id \in IdsOf(direct) THEN direct_base_score ELSE 0) +
    (IF id \in IdsOf(expanded) THEN expanded_base_score ELSE 0) +
    (IF id \in IdsOf(multihop) THEN multihop_base_score(hop_count_of(multihop, id)) ELSE 0)

\* direct > expanded > multihop: the rank of the best strategy of a record
strategy_priority(strategies) ==
    IF "direct" \in strategies THEN 1 ELSE IF "expanded" \in strategies THEN 2 ELSE 3

\* the surviving record of one document: the metadata of all its strategies
fused_record(direct, expanded, multihop, id) ==
    [id |-> id,
     graph_score |-> graph_score(direct, expanded, multihop, id),
     strategies |-> found_by(direct, expanded, multihop, id),
     hop_count |-> hop_count_of(multihop, id)]

\* one record per entry of each list, nothing grouped
fused_records_ungrouped(direct, expanded, multihop) ==
    {[id |-> id, graph_score |-> direct_base_score, strategies |-> {"direct"}, hop_count |-> 0] :
        id \in IdsOf(direct)} \cup
    {[id |-> id, graph_score |-> expanded_base_score, strategies |-> {"expanded"}, hop_count |-> 0] :
        id \in IdsOf(expanded)} \cup
    {[id |-> id, graph_score |-> multihop_base_score(hop_count_of(multihop, id)),
      strategies |-> {"multihop"}, hop_count |-> hop_count_of(multihop, id)] :
        id \in IdsOf(multihop)}

\* group by document id
fused_records(direct, expanded, multihop) ==
    {fused_record(direct, expanded, multihop, id) :
        id \in IdsOf(direct) \cup IdsOf(expanded) \cup IdsOf(multihop)}

\* document ids in their order
IdRank(id) == CASE id = "doc1" -> 1 [] id = "doc2" -> 2 [] id = "doc3" -> 3 [] OTHER -> 4

\* an order by graph_score and document id that leaves the strategy priority out
FusedBefore_without_priority(a, b) ==
    \/ a.graph_score > b.graph_score
    \/ a.graph_score = b.graph_score /\ IdRank(a.id) < IdRank(b.id)

\* graph_score descending, then strategy priority, then document id
FusedBefore(a, b) ==
    \/ a.graph_score > b.graph_score
    \/ /\ a.graph_score = b.graph_score
       /\ \/ strategy_priority(a.strategies) < strategy_priority(b.strategies)
          \/ /\ strategy_priority(a.strategies) = strategy_priority(b.strategies)
             /\ IdRank(a.id) < IdRank(b.id)

RECURSIVE ranked(_)
ranked(records) ==
    IF records = {} THEN <<>>
    ELSE LET first == CHOOSE r \in records : \A o \in records : ~FusedBefore(o, r)
         IN  <<first>> \o ranked(records \ {first})

merge_and_rank(direct, expanded, multihop) == ranked(fused_records(direct, expanded, multihop))

\* a strategy adds a document to its result list
StrategyFinds(strategy, doc) ==
    /\ qcall' = [NoQuery EXCEPT
                    !.op = "collect",
                    !.direct = IF strategy = "direct" THEN Append(qcall.direct, doc)
                               ELSE qcall.direct,
                    !.expanded = IF strategy = "expanded" THEN Append(qcall.expanded, doc)
                                 ELSE qcall.expanded,
                    !.multihop = IF strategy = "multihop" THEN Append(qcall.multihop, doc)
                                 ELSE qcall.multihop]
    /\ UNCHANGED <<graph, run, singleton, keyVars, cacheVars>>

\* merged = self._merge_and_rank(direct_docs, expanded_docs, multihop_docs)
MergeAndRank ==
    /\ qcall.op = "collect"
    /\ qcall' = [qcall EXCEPT !.op = "merge_and_rank",
                              !.rows = merge_and_rank(qcall.direct, qcall.expanded, qcall.multihop)]
    /\ UNCHANGED <<graph, run, singleton, keyVars, cacheVars>>

(***************************************************************************)
(* The orchestrator run of the graph retriever, as sections 4.6, 4.8, 5    *)
(* and 7 of the specification give it: extract the entities, run the three *)
(* strategies side by side, fuse, cut to top_k, explain, return.           *)
(***************************************************************************)
Strategies == {"direct", "expanded", "multihop"}

\* _extract_query_entities(query) without an NER capability: the surface patterns
\* find a visa phrase or nothing
extract_query_entities(query) ==
    IF query = "What are Skilled Worker visa requirements?" THEN <<"Skilled Worker visa">>
    ELSE <<>>

\* the labels of the path of a multihop document and the types of its relationships
path_labels(hop_count) == [i \in 1..(hop_count + 1) |-> "Skilled Worker visa"]
path_types(hop_count) == [i \in 1..hop_count |-> "REQUIRES"]

\* a RetrievedDocument: the surviving record of fusion with the metadata of every
\* strategy that found it; retrieval_strategy is one of those strategies
retrieved_document(r, strategy) ==
    [id |-> r.id,
     retrieval_strategy |-> strategy,
     graph_score |-> r.graph_score,
     matched_entities |-> IF "direct" \in r.strategies THEN <<"Skilled Worker visa">> ELSE <<>>,
     traversal_path |-> IF "multihop" \in r.strategies THEN path_labels(r.hop_count) ELSE <<>>,
     relationship_types |-> IF "multihop" \in r.strategies THEN path_types(r.hop_count) ELSE <<>>,
     hop_count |-> r.hop_count]

\* the document lists fusion may hand over: the ranking of merge_and_rank, each
\* document with one of its strategies as retrieval_strategy
RECURSIVE retrieved_lists(_)
retrieved_lists(fused) ==
    IF fused = <<>> THEN {<<>>}
    ELSE {<<retrieved_document(fused[1], s)>> \o rest :
            s \in fused[1].strategies, rest \in retrieved_lists(Tail(fused))}

\* explanation records that leave the strategy-specific fields out
explanation_path_without_fields(doc) ==
    [document_id |-> doc.id, strategy |-> doc.retrieval_strategy, graph_score |-> doc.graph_score,
     matched_entities |-> <<>>, traversal_path |-> <<>>, relationship_types |-> <<>>,
     hop_count |-> 0]

\* one GraphPath record of a document, built from its metadata
explanation_path(doc) ==
    [document_id |-> doc.id, strategy |-> doc.retrieval_strategy, graph_score |-> doc.graph_score,
     matched_entities |-> doc.matched_entities, traversal_path |-> doc.traversal_path,
     relationship_types |-> doc.relationship_types, hop_count |-> doc.hop_count]

\* _generate_explanation_paths(documents)
generate_explanation_paths(documents) == [i \in DOMAIN documents |-> explanation_path(documents[i])]

\* documents[:top_k + 1]
truncate_past_top_k(documents, top_k) == Take(documents, top_k + 1)

\* documents[:top_k]
truncate(documents, top_k) == Take(documents, top_k)

\* the driver check that lets an absent driver through
driver_absent_never(driver) == FALSE

\* self.driver is None
driver_absent(driver) == driver = "none"

\* a short circuit that is never taken
no_entities_never(entities) == FALSE

\* entities empty
no_entities(entities) == entities = <<>>

\* run(query, entities, top_k): the driver check, the entities, and the start of
\* the three strategies; given holds the entity list of the caller, if any
RunStart(query, given, top_k) ==
    /\ run.pc \in {"idle", "returned", "raised"}
    /\ LET entities == IF given.some THEN given.val ELSE extract_query_entities(query)
           call == [NoRun EXCEPT !.driver = run.driver, !.query = query,
                                 !.entities = entities, !.top_k = top_k]
       IN  run' = IF driver_absent(run.driver)
                  THEN [call EXCEPT !.pc = "raised", !.raised = TRUE]
                  ELSE IF no_entities(entities)
                  THEN [call EXCEPT !.pc = "returned"]
                  ELSE [call EXCEPT !.pc = "strategies", !.invoked = Strategies,
                                    !.pending = Strategies]
    /\ UNCHANGED <<graph, qcall, singleton, keyVars, cacheVars>>

\* the result list of a strategy, put where run keeps it
with_result(r, strategy, docs) ==
    [r EXCEPT !.direct = IF strategy = "direct" THEN docs ELSE @,
              !.expanded = IF strategy = "expanded" THEN docs ELSE @,
              !.multihop = IF strategy = "multihop" THEN docs ELSE @,
              !.pending = @ \ {strategy},
              !.finished = Append(@, strategy),
              !.store_calls = @ + 1]

\* a strategy ran its query and returns its documents
StrategyCompletes(strategy, docs) ==
    /\ run.pc = "strategies" /\ strategy \in run.pending
    /\ run' = with_result(run, strategy, docs)
    /\ UNCHANGED <<graph, qcall, singleton, keyVars, cacheVars>>

\* a store error that escapes the strategy and ends run
StrategyFails_propagating(strategy) ==
    /\ run.pc = "strategies" /\ strategy \in run.pending
    /\ run' = [run EXCEPT !.pc = "raised", !.raised = TRUE, !.failed = @ \cup {strategy}]
    /\ UNCHANGED <<graph, qcall, singleton, keyVars, cacheVars>>

\* the store raised during the query of a strategy (query error, timeout, dropped
\* connection): caught at the strategy boundary, the strategy returns an empty list
StrategyFails(strategy) ==
    /\ run.pc = "strategies" /\ strategy \in run.pending
    /\ run' = [with_result(run, strategy, <<>>) EXCEPT !.failed = @ \cup {strategy}]
    /\ UNCHANGED <<graph, qcall, singleton, keyVars, cacheVars>>

\* a join that waits for no strategy
all_joined_at_once(pending) == TRUE

\* the join point: every strategy completed or failed
all_joined(pending) == pending = {}

\* fuse, cut to top_k, explain, return {documents, graph_paths}
RunJoin ==
    /\ run.pc = "strategies" /\ all_joined(run.pending)
    /\ \E docs \in retrieved_lists(merge_and_rank(run.direct, run.expanded, run.multihop)) :
          LET kept == truncate(docs, run.top_k)
          IN  run' = [run EXCEPT !.pc = "returned", !.documents = kept,
                                 !.graph_paths = generate_explanation_paths(kept)]
    /\ UNCHANGED <<graph, qcall, singleton, keyVars, cacheVars>>

(***************************************************************************)
(* get_graph_cache: the module-level singleton.  The threads of the        *)
(* process may be switched between any two steps of the function.          *)
(***************************************************************************)
\* calls of get_graph_cache in one behaviour
MaxGetCalls == 3

\* _init_stats on a store that answers: a counter that is missing is written as 0
init_stats_outcome(st, isUp) ==
    IF ~isUp THEN st
    ELSE [k \in DOMAIN st \cup {HitsKey, MissesKey} |->
            IF k \in DOMAIN st THEN st[k] ELSE [val |-> JNum(0), ttl |-> 0]]

\* if _graph_cache is None
first_call(s) == s.global = 0

\* global _graph_cache; if _graph_cache is None:
GetGraphCache(p, redis_url) ==
    /\ singleton.pos[p] = "idle"
    /\ singleton.calls < MaxGetCalls
    /\ singleton' = [singleton EXCEPT !.calls = @ + 1, !.url[p] = redis_url,
                        !.pos[p] = IF first_call(singleton) THEN "construct" ELSE "return"]
    /\ UNCHANGED <<graph, qcall, run, keyVars, cacheVars>>

\* GraphQueryCache(redis_url=redis_url): a new instance, whatever the store answers
GetGraphCacheConstruct(p) ==
    /\ singleton.pos[p] = "construct"
    /\ singleton' = [singleton EXCEPT !.instances = Append(@, singleton.url[p]),
                                      !.made[p] = Len(singleton.instances) + 1,
                                      !.pos[p] = "assign"]
    /\ store' = init_stats_outcome(store, up)
    /\ UNCHANGED <<up, client, pc, fr, ret, graphVer, shadow, invalidated, nCalls, getsDone,
                   keyA, keyB, graph, qcall, run>>

\* _graph_cache = <the new instance>
GetGraphCacheAssign(p) ==
    /\ singleton.pos[p] = "assign"
    /\ singleton' = [singleton EXCEPT !.global = singleton.made[p], !.pos[p] = "return"]
    /\ UNCHANGED <<graph, qcall, run, keyVars, cacheVars>>

\* return _graph_cache
GetGraphCacheReturn(p) ==
    /\ singleton.pos[p] = "return"
    /\ singleton' = [singleton EXCEPT !.returned = @ \cup {singleton.global}, !.pos[p] = "done"]
    /\ UNCHANGED <<graph, qcall, run, keyVars, cacheVars>>

\* the caller goes on with the instance it was given
GetGraphCacheDone(p) ==
    /\ singleton.pos[p] = "done"
    /\ singleton' = [singleton EXCEPT !.pos[p] = "idle"]
    /\ UNCHANGED <<graph, qcall, run, keyVars, cacheVars>>

(***************************************************************************)
(* Initial states.                                                         *)
(***************************************************************************)
\* a store that holds the two counters, as _init_stats leaves it
FreshStore == [k \in {HitsKey, MissesKey} |-> [val |-> JNum(0), ttl |-> 0]]
EmptyShadow == [k \in {} |-> PNone]

\* every caller holds a connected cache
CacheBuilt ==
    /\ store = FreshStore
    /\ up = TRUE
    /\ client = [p \in Procs |-> "connected"]
    /\ pc = [p \in Procs |-> "idle"]
    /\ fr = [p \in Procs |-> NoFrame]
    /\ ret = [p \in Procs |-> Returned(PNone)]
    /\ graphVer = 0
    /\ shadow = EmptyShadow
    /\ invalidated = 0
    /\ nCalls = 0
    /\ getsDone = 0

(***************************************************************************)
(* SpecKey: two calls of cache_key.                                        *)
(***************************************************************************)
KeyInit == KeyIdle /\ QueryIdle /\ CacheBuilt
KeyNext == (CacheKeyFirst \/ CacheKeySecond) /\ UNCHANGED cacheVars
SpecKey == KeyInit /\ [][KeyNext]_vars

(***************************************************************************)
(* SpecKV: get, set and delete of two callers on a connected cache, with   *)
(* TTL expiry.                                                             *)
(***************************************************************************)
KVKeys == {KeyOf(Q1), KeyOf(Q2)}
KVValues == { PNone,
              PDict(<<PEntry(PStr("a"), PList(<<PInt(1)>>))>>),
              PTuple(<<PInt(1)>>),
              PDict(<<PEntry(PInt(1), PStr("a"))>>) }
KVTtls == {PNone, PInt(60)}

KVInit == KeyIdle /\ QueryIdle /\ CacheBuilt
KVNext ==
    \/ \E p \in Procs, k \in KVKeys : StartGet(p, k)
    \/ \E p \in Procs : GetIncr(p)
    \/ \E p \in Procs, k \in KVKeys, v \in KVValues, t \in KVTtls, nx \in BOOLEAN :
           StartSet(p, k, v, t, nx)
    \/ \E p \in Procs, k \in KVKeys : StartDelete(p, k)
    \/ \E k \in KVKeys : Expire(k)
    \/ \E p \in Procs : Return(p)
SpecKV == KVInit /\ [][KVNext]_vars

(***************************************************************************)
(* SpecNX: plain and conditional sets of two callers, nothing removed.     *)
(***************************************************************************)
NXValues == {PDict(<<PEntry(PStr("a"), PList(<<PInt(1)>>))>>), PStr("b")}
NXTtls == {PNone, PInt(60), PInt(-1)}

NXInit == KeyIdle /\ QueryIdle /\ CacheBuilt
NXNext ==
    \/ \E p \in Procs, k \in KVKeys, v \in NXValues, t \in NXTtls, nx \in BOOLEAN :
           StartSet(p, k, v, t, nx)
    \/ \E p \in Procs : Return(p)
SpecNX == NXInit /\ [][NXNext]_vars

(***************************************************************************)
(* SpecInv: pattern invalidations of two callers over a populated store    *)
(* that nobody writes to; the store may stop answering.                    *)
(***************************************************************************)
InvValue == PDict(<<PEntry(PStr("documents"), PList(<<PStr("a")>>))>>)
InvPatterns == {Pattern(default_key_prefix, "*"), Pattern(default_key_prefix, "run"),
                Pattern("cache:", "*")}
Invalidating(p) == fr[p].op \in {"invalidate_pattern", "clear_all"}

\* the store after set(k, InvValue) for every k of S
Populated(S) ==
    [k \in S \cup {HitsKey, MissesKey} |->
        IF k \in S THEN [val |-> json_dumps(InvValue, FALSE), ttl |-> default_ttl]
        ELSE [val |-> JNum(0), ttl |-> 0]]

InvInit ==
    /\ KeyIdle /\ QueryIdle
    /\ \E S \in SUBSET CacheKeys :
          /\ store = Populated(S)
          /\ shadow = [k \in S |-> InvValue]
    /\ up = TRUE
    /\ client = [p \in Procs |-> "connected"]
    /\ pc = [p \in Procs |-> "idle"]
    /\ fr = [p \in Procs |-> NoFrame]
    /\ ret = [p \in Procs |-> Returned(PNone)]
    /\ graphVer = 0 /\ invalidated = 0 /\ nCalls = 0 /\ getsDone = 0

\* invalidations started in one behaviour of SpecInv
MaxInvCalls == 2

InvNext ==
    \/ \E p \in Procs, pat \in InvPatterns : nCalls < MaxInvCalls /\ StartInvalidate(p, pat)
    \/ \E p \in Procs : nCalls < MaxInvCalls /\ StartClearAll(p)
    \/ \E p \in Procs : InvScanNext(p)
    \/ \E p \in Procs : InvDelete(p)
    \/ \E p \in Procs : Return(p)
    \/ StoreDown
SpecInv == InvInit /\ [][InvNext]_vars

(***************************************************************************)
(* SpecRace: decorated calls, the graph writer's mutation and the          *)
(* invalidation of the namespace that follows it.                          *)
(***************************************************************************)
RaceInit == KeyIdle /\ QueryIdle /\ CacheBuilt
RaceNext ==
    \/ \E p \in Procs : StartWrapper(p, Q1, PInt(300), FALSE)
    \/ \E p \in Procs : GetIncr(p)
    \/ \E p \in Procs : WrapperExec(p)
    \/ \E p \in Procs : WrapperSet(p)
    \/ Mutate
    \/ \E p \in Procs : StartClearAll(p)
    \/ \E p \in Procs : InvScanNext(p)
    \/ \E p \in Procs : InvDelete(p)
    \/ \E p \in Procs : Return(p)
SpecRace == RaceInit /\ [][RaceNext]_vars

(***************************************************************************)
(* SpecWarm: cache warming beside decorated calls; nothing is removed.     *)
(***************************************************************************)
\* longest batch given to warm_cache
MaxBatch == 2
WarmResult == PDict(<<PEntry(PStr("documents"), PList(<<PStr("warm")>>))>>)
WarmEntries == {WarmEntry(q, WarmResult, PNone) : q \in {Q1, Q2}}
RECURSIVE WarmBatches(_)
WarmBatches(n) ==
    IF n = 0 THEN {<<>>}
    ELSE WarmBatches(n - 1) \cup
         {Append(b, e) : b \in {x \in WarmBatches(n - 1) : Len(x) = n - 1}, e \in WarmEntries}

WarmInit == KeyIdle /\ QueryIdle /\ CacheBuilt
WarmSpecNext ==
    \/ \E p \in Procs, b \in WarmBatches(MaxBatch) : StartWarm(p, b)
    \/ \E p \in Procs : WarmNext(p)
    \/ \E p \in Procs, q \in {Q1, Q2} : StartWrapper(p, q, PInt(300), FALSE)
    \/ \E p \in Procs : GetIncr(p)
    \/ \E p \in Procs : WrapperExec(p)
    \/ \E p \in Procs : WrapperSet(p)
    \/ \E p \in Procs : Return(p)
SpecWarm == WarmInit /\ [][WarmSpecNext]_vars

(***************************************************************************)
(* SpecStats: every operation but reset_stats, from two callers at once.   *)
(***************************************************************************)
StatsInit == KeyIdle /\ QueryIdle /\ CacheBuilt
StatsNext ==
    \/ \E p \in Procs : StartGet(p, KeyOf(Q1))
    \/ \E p \in Procs : GetIncr(p)
    \/ \E p \in Procs : StartSet(p, KeyOf(Q1), InvValue, PNone, FALSE)
    \/ \E p \in Procs : StartDelete(p, KeyOf(Q1))
    \/ \E p \in Procs : StartInvalidate(p, Pattern(default_key_prefix, "*"))
    \/ \E p \in Procs : InvScanNext(p)
    \/ \E p \in Procs : InvDelete(p)
    \/ \E p \in Procs : StartWarm(p, <<WarmEntry(Q1, WarmResult, PNone)>>)
    \/ \E p \in Procs : StartStats(p)
    \/ \E p \in Procs : StatsMisses(p)
    \/ \E p \in Procs : Return(p)
SpecStats == StatsInit /\ [][StatsNext]_vars

(***************************************************************************)
(* SpecDown: caches constructed while the store may be unreachable, and    *)
(* every operation on the instances so built.                              *)
(***************************************************************************)
\* caller p holds an instance
Built(p) == client[p] # "unbuilt"
DownKey == KeyOf(Q1)

DownInit ==
    /\ KeyIdle /\ QueryIdle
    /\ store = [k \in {DownKey} |-> [val |-> json_dumps(InvValue, FALSE), ttl |-> default_ttl]]
    /\ shadow = [k \in {DownKey} |-> InvValue]
    /\ up \in BOOLEAN
    /\ client = [p \in Procs |-> "unbuilt"]
    /\ pc = [p \in Procs |-> "idle"]
    /\ fr = [p \in Procs |-> NoFrame]
    /\ ret = [p \in Procs |-> Returned(PNone)]
    /\ graphVer = 0
    /\ invalidated = 0
    /\ nCalls = 0
    /\ getsDone = 0

DownNext ==
    \/ \E p \in Procs : Construct(p)
    \/ \E p \in Procs : InitHitsExists(p)
    \/ \E p \in Procs : InitHitsSet(p)
    \/ \E p \in Procs : InitMissesExists(p)
    \/ \E p \in Procs : InitMissesSet(p)
    \/ StoreDown
    \/ StoreUp
    \/ \E p \in Procs : Built(p) /\ StartGet(p, DownKey)
    \/ \E p \in Procs : GetIncr(p)
    \/ \E p \in Procs : Built(p) /\ StartSet(p, DownKey, WarmResult, PNone, FALSE)
    \/ \E p \in Procs : Built(p) /\ StartDelete(p, DownKey)
    \/ \E p \in Procs : Built(p) /\ StartInvalidate(p, Pattern(default_key_prefix, "*"))
    \/ \E p \in Procs : Built(p) /\ StartClearAll(p)
    \/ \E p \in Procs : InvScanNext(p)
    \/ \E p \in Procs : InvDelete(p)
    \/ \E p \in Procs : Built(p) /\ StartWarm(p, <<WarmEntry(Q2, WarmResult, PNone)>>)
    \/ \E p \in Procs : Built(p) /\ StartStats(p)
    \/ \E p \in Procs : StatsMisses(p)
    \/ \E p \in Procs : Built(p) /\ StartWrapper(p, Q1, PInt(300), FALSE)
    \/ \E p \in Procs : WrapperExec(p)
    \/ \E p \in Procs : WrapperSet(p)
    \/ \E p \in Procs : Return(p)
SpecDown == DownInit /\ [][DownNext]_vars

(***************************************************************************)
(* SpecFail: connected caches whose store stops answering, and answers     *)
(* again, at any moment of any operation.                                  *)
(***************************************************************************)
FailKey == KeyOf(Q1)
FailInit ==
    /\ KeyIdle /\ QueryIdle
    /\ store = Populated({FailKey, KeyOf(Q3)})
    /\ shadow = [k \in {FailKey, KeyOf(Q3)} |-> InvValue]
    /\ up = TRUE
    /\ client = [p \in Procs |-> "connected"]
    /\ pc = [p \in Procs |-> "idle"]
    /\ fr = [p \in Procs |-> NoFrame]
    /\ ret = [p \in Procs |-> Returned(PNone)]
    /\ graphVer = 0
    /\ invalidated = 0
    /\ nCalls = 0
    /\ getsDone = 0

FailNext ==
    \/ StoreDown
    \/ StoreUp
    \/ \E p \in Procs : StartGet(p, FailKey)
    \/ \E p \in Procs : GetIncr(p)
    \/ \E p \in Procs : StartSet(p, FailKey, WarmResult, PNone, FALSE)
    \/ \E p \in Procs : StartDelete(p, FailKey)
    \/ \E p \in Procs : nCalls < MaxInvCalls /\ StartInvalidate(p, Pattern(default_key_prefix, "*"))
    \/ \E p \in Procs, q \in {Q1, Q2} : StartWrapper(p, q, PInt(300), FALSE)
    \/ \E p \in Procs : WrapperExec(p)
    \/ \E p \in Procs : WrapperSet(p)
    \/ \E p \in Procs : InvScanNext(p)
    \/ \E p \in Procs : InvDelete(p)
    \/ \E p \in Procs : Return(p)
SpecFail == FailInit /\ [][FailNext]_vars

(***************************************************************************)
(* SpecReport: get_stats and reset_stats on a cache that has served        *)
(* requests, beside gets and sets.                                         *)
(***************************************************************************)
\* largest value of a counter when the run starts
MaxCount == 2
ReportKey == KeyOf(Q1)
ReportInit ==
    /\ KeyIdle /\ QueryIdle
    /\ \E h \in 0..MaxCount, m \in 0..MaxCount :
          /\ store = [k \in {HitsKey, MissesKey} |->
                        [val |-> JNum(IF k = HitsKey THEN h ELSE m), ttl |-> 0]]
          /\ getsDone = h + m
    /\ shadow = EmptyShadow
    /\ up = TRUE
    /\ client = [p \in Procs |-> "connected"]
    /\ pc = [p \in Procs |-> "idle"]
    /\ fr = [p \in Procs |-> NoFrame]
    /\ ret = [p \in Procs |-> Returned(PNone)]
    /\ graphVer = 0
    /\ invalidated = 0
    /\ nCalls = 0

ReportNext ==
    \/ \E p \in Procs : StartGet(p, ReportKey)
    \/ \E p \in Procs : GetIncr(p)
    \/ \E p \in Procs : StartSet(p, ReportKey, InvValue, PNone, FALSE)
    \/ \E p \in Procs : StartStats(p)
    \/ \E p \in Procs : StatsMisses(p)
    \/ \E p \in Procs : StartReset(p)
    \/ \E p \in Procs : ResetMisses(p)
    \/ \E p \in Procs : Return(p)
SpecReport == ReportInit /\ [][ReportNext]_vars


(***************************************************************************)
(* SpecTraverse: format_multihop_query, then the multihop_traversal and    *)
(* relationship_expansion queries, over a family of graphs.                *)
(***************************************************************************)
\* how far outside 1..5 the depths tried reach
DepthSlack == 2
\* largest $limit tried
MaxLimit == 2

Depths == (multihop_min_depth - DepthSlack)..(multihop_max_depth + DepthSlack)
Limits == 0..MaxLimit
EntityLists == {<<>>, <<"visa">>, <<"visa", "test">>}

\* relationships every graph of the family has: d1 holds e3, and e1 has an edge of a
\* type in no whitelist to e4
TraverseBase == {Rel("d1", "CONTAINS_ENTITY", "e3"), Rel("e1", "RELATED_TO", "e4")}

\* relationships a graph of the family may have: a two-hop chain e1, e2, e3 and a
\* one-hop way e1, e3; an edge back from e3 to e1; an edge of the fifth expansion
\* type; a CONTAINS_ENTITY edge between entities; an edge that ends at no Entity
TraverseEdges ==
    {Rel("e1", "REQUIRES", "e2"), Rel("e2", "REQUIRES", "e3"), Rel("e1", "DEPENDS_ON", "e3"),
     Rel("e3", "REQUIRES", "e1"), Rel("e1", "CAN_TRANSITION_TO", "e4"),
     Rel("e1", "CONTAINS_ENTITY", "e4"),
     Rel("d2", "CONTAINS_ENTITY", "e4"), Rel("d2", "CONTAINS_ENTITY", "e2"),
     Rel("e2", "APPLIES_IF", "d1")}

TraverseInit ==
    /\ KeyIdle /\ CacheBuilt
    /\ graph \in {TraverseBase \cup g : g \in SUBSET TraverseEdges}
    /\ qcall = NoQuery /\ run = NoRun /\ singleton = NoSingleton

TraverseNext ==
    \/ \E d \in Depths : FormatMultihop(d)
    \/ \E d \in Depths : FormatVisualization(d)
    \/ \E es \in EntityLists, limit \in Limits : MultihopTraversal(es, limit)
    \/ \E es \in EntityLists, limit \in Limits : RelationshipExpansion(es, limit)

SpecTraverse == TraverseInit /\ [][TraverseNext]_vars

(***************************************************************************)
(* SpecDirect: the direct_entity_search query over a family of graphs in   *)
(* which a document may hold up to eight matched entities.                 *)
(***************************************************************************)
\* relationships every graph of the family has: d1 holds four entities that match "visa"
DirectBase == {Rel("d1", "CONTAINS_ENTITY", e) : e \in {"e1", "e2", "e4", "e5"}}

\* relationships a graph of the family may have
DirectEdges ==
    {Rel("d1", "CONTAINS_ENTITY", e) : e \in {"e3", "e6", "e7", "e8"}}
    \cup {Rel("d2", "CONTAINS_ENTITY", e) : e \in {"e1", "e3", "e4"}}
    \cup {Rel("e1", "REQUIRES", "e3")}

DirectInit ==
    /\ KeyIdle /\ CacheBuilt
    /\ graph \in {DirectBase \cup g : g \in SUBSET DirectEdges}
    /\ qcall = NoQuery /\ run = NoRun /\ singleton = NoSingleton

DirectNext ==
    \E es \in EntityLists \cup {<<"test">>, <<"visa", "visa">>}, limit \in Limits :
        DirectSearch(es, limit)

SpecDirect == DirectInit /\ [][DirectNext]_vars

(***************************************************************************)
(* SpecFuse: the three strategies hand over result lists, then the         *)
(* retriever merges and ranks them.                                        *)
(***************************************************************************)
\* longest result list of a strategy
MaxList == 2
\* the hop counts a multihop document may carry: a path has 1..max_depth relationships
HopCounts == multihop_min_depth..multihop_max_depth

FuseIds == {"doc1", "doc2", "doc3"}

ListOf(strategy) ==
    CASE strategy = "direct" -> qcall.direct
      [] strategy = "expanded" -> qcall.expanded
      [] strategy = "multihop" -> qcall.multihop

\* the documents a strategy may add: the direct and the multihop strategy give a
\* document id once, relationship expansion gives it once per relationship that
\* led to it; only a multihop document has a hop_count
MayFind(strategy, doc) ==
    /\ Len(ListOf(strategy)) < MaxList
    /\ strategy # "expanded" => doc.id \notin IdsOf(ListOf(strategy))
    /\ doc.hop_count \in (IF strategy = "multihop" THEN HopCounts ELSE {0})

FuseInit == KeyIdle /\ CacheBuilt /\ QueryIdle

FuseNext ==
    \/ \E strategy \in {"direct", "expanded", "multihop"} :
       \E id \in FuseIds, h \in {0} \cup HopCounts :
          MayFind(strategy, Doc(id, h)) /\ StrategyFinds(strategy, Doc(id, h))
    \/ MergeAndRank

SpecFuse == FuseInit /\ [][FuseNext]_vars

(***************************************************************************)
(* SpecRun: calls of run on a retriever with or without a driver; the      *)
(* three strategies finish in any order, each with a list or a failure.    *)
(***************************************************************************)
\* longest result list of a strategy of run
MaxRunList == 1
\* largest top_k
MaxTopK == 2

RunQueries == {"Hello, how are you?", "What are Skilled Worker visa requirements?"}
GivenEntities == {[some |-> FALSE, val |-> <<>>], [some |-> TRUE, val |-> <<"visa">>]}

\* the result lists of a strategy of run: no document id twice
RunLists(strategy) ==
    LET hops == IF strategy = "multihop" THEN {1, 2} ELSE {0}
        docs == {Doc(id, h) : id \in {"doc1", "doc2"}, h \in hops}
    IN  {s \in UNION {[1..n -> docs] : n \in 0..MaxRunList} :
            \A i, j \in DOMAIN s : s[i].id = s[j].id => i = j}

RunInit ==
    /\ KeyIdle /\ CacheBuilt
    /\ graph = NoGraph /\ qcall = NoQuery /\ singleton = NoSingleton
    /\ run \in {[NoRun EXCEPT !.driver = d] : d \in {"connected", "none"}}

RunNext ==
    \/ \E query \in RunQueries, given \in GivenEntities, top_k \in 0..MaxTopK :
          RunStart(query, given, top_k)
    \/ \E strategy \in Strategies : \E docs \in RunLists(strategy) :
          StrategyCompletes(strategy, docs)
    \/ \E strategy \in Strategies : StrategyFails(strategy)
    \/ RunJoin

SpecRun == RunInit /\ [][RunNext]_vars

(***************************************************************************)
(* SpecAside: decorated calls on a connected cache that nothing else       *)
(* touches: the wrapped method may return a list, a tuple or None, or raise,*)
(* and the decorator is applied with either value of cache_none.           *)
(***************************************************************************)
\* the ttl given to the decorator
AsideTtl == PInt(60)
AsideQueries == {Q1, Q3, Q4}
AsideInit == KeyIdle /\ QueryIdle /\ CacheBuilt
AsideNext ==
    \/ \E p \in Procs, q \in AsideQueries, cache_none \in BOOLEAN :
           StartWrapper(p, q, AsideTtl, cache_none)
    \/ \E p \in Procs : GetIncr(p)
    \/ \E p \in Procs : WrapperExec(p)
    \/ \E p \in Procs : WrapperExecRaises(p)
    \/ \E p \in Procs : WrapperSet(p)
    \/ \E p \in Procs : Return(p)
SpecAside == AsideInit /\ [][AsideNext]_vars

(***************************************************************************)
(* SpecShare: two objects constructed with different top_k make decorated  *)
(* calls over one store.                                                   *)
(***************************************************************************)
ShareQueries == {Q1, Q5}
ShareInit == KeyIdle /\ QueryIdle /\ CacheBuilt
ShareNext ==
    \/ \E p \in Procs, q \in ShareQueries : StartWrapper(p, q, AsideTtl, FALSE)
    \/ \E p \in Procs : GetIncr(p)
    \/ \E p \in Procs : WrapperExec(p)
    \/ \E p \in Procs : WrapperSet(p)
    \/ \E p \in Procs : Return(p)
SpecShare == ShareInit /\ [][ShareNext]_vars

(***************************************************************************)
(* SpecBuild: instances constructed over a reachable store that holds one  *)
(* entry and no counters yet, beside get calls of the instances already    *)
(* built.  Nothing calls reset_stats.                                      *)
(***************************************************************************)
BuildInit ==
    /\ KeyIdle /\ QueryIdle
    /\ store = [k \in {DownKey} |-> [val |-> json_dumps(InvValue, FALSE), ttl |-> default_ttl]]
    /\ shadow = [k \in {DownKey} |-> InvValue]
    /\ up = TRUE
    /\ client = [p \in Procs |-> "unbuilt"]
    /\ pc = [p \in Procs |-> "idle"]
    /\ fr = [p \in Procs |-> NoFrame]
    /\ ret = [p \in Procs |-> Returned(PNone)]
    /\ graphVer = 0
    /\ invalidated = 0
    /\ nCalls = 0
    /\ getsDone = 0
BuildNext ==
    \/ \E p \in Procs : Construct(p)
    \/ \E p \in Procs : InitHitsExists(p)
    \/ \E p \in Procs : InitHitsSet(p)
    \/ \E p \in Procs : InitMissesExists(p)
    \/ \E p \in Procs : InitMissesSet(p)
    \/ \E p \in Procs, q \in {Q1, Q2} : Built(p) /\ StartGet(p, KeyOf(q))
    \/ \E p \in Procs : GetIncr(p)
    \/ \E p \in Procs : Return(p)
SpecBuild == BuildInit /\ [][BuildNext]_vars

(***************************************************************************)
(* SpecTtl: every writer of entries (set, conditional set, warm_cache, the *)
(* decorator) with a ttl of None, 0, a negative number or a positive one,  *)
(* beside expiry.                                                          *)
(***************************************************************************)
TtlChoices == {PNone, PInt(0), PInt(-1), PInt(60)}
TtlInit == KeyIdle /\ QueryIdle /\ CacheBuilt
TtlNext ==
    \/ \E p \in Procs, t \in TtlChoices, nx \in BOOLEAN :
           StartSet(p, KeyOf(Q1), WarmResult, t, nx)
    \/ \E p \in Procs, t \in TtlChoices : StartWarm(p, <<WarmEntry(Q1, WarmResult, t)>>)
    \/ \E p \in Procs, t \in TtlChoices \ {PNone} : StartWrapper(p, Q1, t, FALSE)
    \/ \E p \in Procs : GetIncr(p)
    \/ \E p \in Procs : WrapperExec(p)
    \/ \E p \in Procs : WrapperSet(p)
    \/ Expire(KeyOf(Q1))
    \/ \E p \in Procs : Return(p)
SpecTtl == TtlInit /\ [][TtlNext]_vars

(***************************************************************************)
(* SpecSingleton: the threads of one process call get_graph_cache, the     *)
(* first calls at the same time, over a store that answers.                *)
(***************************************************************************)
RedisUrls == {"redis://localhost:6379/1", "redis://cache:6379/2"}
SingletonInit == KeyIdle /\ QueryIdle /\ CacheBuilt
SingletonNext ==
    \/ \E p \in Procs, redis_url \in RedisUrls : GetGraphCache(p, redis_url)
    \/ \E p \in Procs : GetGraphCacheConstruct(p)
    \/ \E p \in Procs : GetGraphCacheAssign(p)
    \/ \E p \in Procs : GetGraphCacheReturn(p)
    \/ \E p \in Procs : GetGraphCacheDone(p)
SpecSingleton == SingletonInit /\ [][SingletonNext]_vars

(***************************************************************************)
(* SpecScope: invalidations by method and clear_all over a store that      *)
(* holds entries of three methods, one named with the name of another as   *)
(* its beginning; one caller invalidates and nobody writes.                *)
(***************************************************************************)
ScopeQueries == {Q1, Q2, Q3, Q6}
ScopeKeys == {KeyOf(q) : q \in ScopeQueries}
ScopeMethods == {q.method : q \in ScopeQueries}
ScopeInit ==
    /\ KeyIdle /\ QueryIdle
    /\ \E S \in SUBSET ScopeKeys :
          /\ KeyOf(Q6) \in S
          /\ store = Populated(S)
          /\ shadow = [k \in S |-> InvValue]
    /\ up = TRUE
    /\ client = [p \in Procs |-> "connected"]
    /\ pc = [p \in Procs |-> "idle"]
    /\ fr = [p \in Procs |-> NoFrame]
    /\ ret = [p \in Procs |-> Returned(PNone)]
    /\ graphVer = 0 /\ invalidated = 0 /\ nCalls = 0 /\ getsDone = 0
\* the caller that invalidates
ScopeCaller == "w1"
ScopeNext ==
    \/ \E m \in ScopeMethods :
          nCalls < MaxInvCalls /\ StartInvalidate(ScopeCaller, Pattern(default_key_prefix, m))
    \/ nCalls < MaxInvCalls /\ StartClearAll(ScopeCaller)
    \/ \E p \in Procs : InvScanNext(p)
    \/ \E p \in Procs : InvDelete(p)
    \/ \E p \in Procs : Return(p)
SpecScope == ScopeInit /\ [][ScopeNext]_vars

(***************************************************************************)
(* SpecMalformed: warm_cache over batches that mix well-formed entries     *)
(* with a mapping without 'method', a mapping without 'result' and a str.  *)
(***************************************************************************)
MalformedEntries ==
    { [args |-> <<PStr("a")>>, result |-> WarmResult, ttl |-> PNone],
      [q |-> Q1, ttl |-> PNone],
      PStr("run") }
MixedBatches ==
    LET entries == WarmEntries \cup MalformedEntries
    IN  UNION {[1..n -> entries] : n \in 0..MaxBatch}
MalformedInit == KeyIdle /\ QueryIdle /\ CacheBuilt
MalformedNext ==
    \/ \E p \in Procs, b \in MixedBatches : StartWarm(p, b)
    \/ \E p \in Procs : WarmNext(p)
    \/ \E p \in Procs : Return(p)
SpecMalformed == MalformedInit /\ [][MalformedNext]_vars

(***************************************************************************)
(* SpecFrame: every operation of the cache, from two callers at once, on   *)
(* the default key prefix; what each step leaves alone.                    *)
(***************************************************************************)
FrameKey == KeyOf(Q1)
FrameInit == KeyIdle /\ QueryIdle /\ CacheBuilt
FrameNext ==
    \/ \E p \in Procs : StartGet(p, FrameKey)
    \/ \E p \in Procs : GetIncr(p)
    \/ \E p \in Procs : StartSet(p, FrameKey, InvValue, PNone, FALSE)
    \/ \E p \in Procs : StartDelete(p, FrameKey)
    \/ \E p \in Procs : StartInvalidate(p, Pattern(default_key_prefix, "*"))
    \/ \E p \in Procs : StartClearAll(p)
    \/ \E p \in Procs : InvScanNext(p)
    \/ \E p \in Procs : InvDelete(p)
    \/ \E p \in Procs : StartWarm(p, <<WarmEntry(Q1, WarmResult, PNone)>>)
    \/ \E p \in Procs : StartStats(p)
    \/ \E p \in Procs : StatsMisses(p)
    \/ \E p \in Procs : StartReset(p)
    \/ \E p \in Procs : ResetMisses(p)
    \/ \E p \in Procs : Return(p)
SpecFrame == FrameInit /\ [][FrameNext]_vars
\* kwargs or {}
KwDict(kw) == IF kw.t = "dict" THEN kw ELSE PDict(<<>>)
Swapped(a, b) == Len(a) = 2 /\ b = <<a[2], a[1]>>

Hits(st)   == CounterValue(st, HitsKey)
Misses(st) == CounterValue(st, MissesKey)

\* a get of caller p that reached the store without a store error has returned
GetDone(p) == pc[p] = "done" /\ fr[p].op = "get" /\ client[p] = "connected" /\ ~fr[p].err

\* values json can hand back unchanged: None, bool, int, str, lists of such, and
\* dicts with str keys and such values
RECURSIVE JsonNative(_)
JsonNative(v) ==
    CASE v.t \in {"none", "bool", "int", "str"} -> TRUE
      [] v.t = "list" -> \A i \in DOMAIN v.items : JsonNative(v.items[i])
      [] v.t = "dict" -> \A i \in DOMAIN v.items :
                            v.items[i].items[1].t = "str" /\ JsonNative(v.items[i].items[2])
      [] OTHER -> FALSE

\* C1 as stated: a get that reads key k while the last set(k, v) that returned True
\* is still in force (not expired, deleted or overwritten) returns a value equal to v,
\* and a get of a key with no set in force (deleted, say) returns None.
C1_GetReturnsEqualValue ==
    \A p \in Procs : GetDone(p) =>
        IF fr[p].expect.some THEN PyEq(ret[p].val, fr[p].expect.val)
        ELSE ret[p].val = PNone

\* C1 amended: such a get returns json.loads(json.dumps(v)), which equals v when v is
\* made of None, bool, int, str, lists and str-keyed dicts; a get of a key with no set
\* in force returns None.
C1_GetReturnsJsonRoundTrip ==
    \A p \in Procs : GetDone(p) =>
        IF fr[p].expect.some
        THEN /\ ret[p].val = json_loads(json_dumps(fr[p].expect.val, FALSE))
             /\ JsonNative(fr[p].expect.val) => PyEq(ret[p].val, fr[p].expect.val)
        ELSE ret[p].val = PNone

\* a get has returned the dict a set stored before
C1_Witness ==
    \E p \in Procs :
        /\ GetDone(p) /\ fr[p].expect.some
        /\ fr[p].expect.val.t = "dict" /\ JsonNative(fr[p].expect.val)
        /\ PyEq(ret[p].val, fr[p].expect.val)

\* caller p's get finishes in this step
GetFinishes(p) == pc[p] # "done" /\ pc'[p] = "done" /\ fr'[p].op = "get"

NxSetStep(p) == pc[p] = "idle" /\ pc'[p] = "done" /\ fr'[p].op = "set" /\ fr'[p].nx
NxWinners(k) == {p \in Procs : /\ pc[p] = "done" /\ fr[p].op = "set" /\ fr[p].nx
                               /\ fr[p].key = k /\ ret[p].val = PBool(TRUE)}

\* C8: set(k, v, nx=True) writes v and returns True only when k is absent (and it
\* does so whenever k is absent and the TTL is valid); when k is present the store
\* is left unchanged and the call returns False; of the conditional sets of several
\* callers on a key that is never removed, at most one returns True.
C8_ConditionalStore ==
    /\ [][\A p \in Procs : NxSetStep(p) =>
            LET k  == fr'[p].key
                ok == ret'[p].val = PBool(TRUE)
            IN  /\ ret'[p].val \in {PBool(TRUE), PBool(FALSE)}
                /\ k \in DOMAIN store => (~ok /\ store' = store)
                /\ ok => /\ k \notin DOMAIN store
                         /\ store' = redis_put(store, k, json_dumps(fr'[p].val, FALSE),
                                               EffectiveTtl(fr'[p].ttl))
                /\ ~ok => store' = store
                /\ (k \notin DOMAIN store /\ EffectiveTtl(fr'[p].ttl) > 0) => ok]_vars
    /\ [](\A k \in KVKeys : Cardinality(NxWinners(k)) <= 1)

\* two callers have both finished a conditional set on the same key: one won, one lost
C8_Witness ==
    \E p, q \in Procs, k \in KVKeys :
        /\ p # q /\ p \in NxWinners(k)
        /\ pc[q] = "done" /\ fr[q].op = "set" /\ fr[q].nx /\ fr[q].key = k
        /\ EffectiveTtl(fr[q].ttl) > 0 /\ ret[q].val = PBool(FALSE)
        /\ store[k].val = json_dumps(fr[p].val, FALSE) /\ fr[p].val # fr[q].val

(***************************************************************************)
(* Claims about invalidate_pattern (SpecInv).                              *)
(***************************************************************************)
InvDone(p) == pc[p] = "done" /\ Invalidating(p) /\ client[p] = "connected"

\* C3: on a connected cache whose store answers, with no writer running beside it,
\* once invalidate_pattern(p) (or clear_all) has returned no key matching p is left
\* in the store, however many SCAN batches the keyspace took.
C3_NoMatchingKeyRemains ==
    \A p \in Procs : (InvDone(p) /\ ~fr[p].err) =>
        \A k \in AllKeys : Match(fr[p].pat, k) => k \notin DOMAIN store

\* an invalidation has removed three keys, which takes more than one batch
C3_Witness ==
    \E p \in Procs : InvDone(p) /\ ~fr[p].err /\ fr[p].removed = 3 /\ ret[p].val = PInt(3)

\* C4: invalidate_pattern returns exactly the number of keys it deleted from the
\* store, in every outcome, also when the store raises part-way through the scan.
C4_ReturnsDeletedCount ==
    \A p \in Procs : InvDone(p) => ret[p].val = PInt(fr[p].removed)

(***************************************************************************)
(* Claims about the decorator and the graph writer (SpecRace).             *)
(***************************************************************************)
\* C2: once the writer has mutated the graph and an invalidation of the namespace
\* started after that has completed, no decorated call that starts afterwards is
\* served a cached result computed from the graph before the mutation.
C2_NoStaleHitAfterInvalidation ==
    \A p \in Procs :
        (pc[p] = "done" /\ fr[p].op = "wrapper" /\ fr[p].hit) =>
            VersionOf(ret[p].val) >= fr[p].floor

(***************************************************************************)
(* Claims about warm_cache (SpecWarm).                                     *)
(***************************************************************************)
\* caller p's warm_cache handles one entry of its batch in this step
WarmStep(p) ==
    /\ pc[p] \in {"idle", "warm_next"} /\ pc'[p] # pc[p]
    /\ fr'[p].op = "warm_cache" /\ fr'[p].batch # <<>>
BatchKeys(b) == {KeyOf(b[i].q) : i \in DOMAIN b}

\* C9: warm_cache never overwrites an entry that is in the cache (one written by a
\* concurrent miss included), it counts an entry exactly when it writes it, it returns
\* that count, and, nothing being removed meanwhile, a key repeated in the batch is
\* written and counted once.
C9_WarmWritesOnlyAbsentKeys ==
    /\ [][\A p \in Procs : WarmStep(p) =>
            LET k == fr'[p].key IN
            /\ k \in DOMAIN store => (store' = store /\ fr'[p].count = fr[p].count)
            /\ k \notin DOMAIN store =>
                  /\ store' = redis_put(store, k, json_dumps(fr'[p].val, FALSE),
                                        EffectiveTtl(fr'[p].ttl))
                  /\ fr'[p].count = fr[p].count + 1
            /\ pc'[p] = "done" => ret'[p].val = PInt(fr'[p].count)]_vars
    /\ [](\A p \in Procs : (pc[p] = "done" /\ fr[p].op = "warm_cache") =>
            /\ ret[p].val = PInt(fr[p].removed)
            /\ fr[p].removed <= Cardinality(BatchKeys(fr[p].batch)))

\* a warm of two entries with the same key wrote one of them; another warm found the
\* key of its entry already written by a decorated call's miss and wrote nothing
C9_Witness ==
    \E p, q \in Procs :
        /\ pc[p] = "done" /\ fr[p].op = "warm_cache" /\ Len(fr[p].batch) = 2
        /\ Cardinality(BatchKeys(fr[p].batch)) = 1 /\ ret[p].val = PInt(1)
        /\ store[fr[p].key].val = json_dumps(WarmResult, FALSE)
        /\ pc[q] = "done" /\ fr[q].op = "warm_cache" /\ Len(fr[q].batch) = 1
        /\ ret[q].val = PInt(0)
        /\ store[fr[q].key].val # json_dumps(WarmResult, FALSE)

(***************************************************************************)
(* Claims about the counters under concurrency (SpecStats).                *)
(***************************************************************************)
\* C7: whatever the interleaving of get, set, delete, invalidate_pattern, warm_cache
\* and get_stats calls of several callers, hits + misses equals the number of get
\* calls that have completed: no increment is lost.
C7_NoLostCounterUpdate == Hits(store) + Misses(store) = getsDone

\* both callers had read the key before either counted, and both counts are there
C7_Witness ==
    /\ getsDone = 2 /\ Hits(store) + Misses(store) = 2
    /\ \A p \in Procs : pc[p] = "done" /\ fr[p].op = "get" /\ fr[p].seen = 0

(***************************************************************************)
(* Claims about a cache constructed while the store is unreachable         *)
(* (SpecDown).                                                             *)
(***************************************************************************)
\* what an operation of a cache without a client returns
NoOpResult(f, r) ==
    CASE f.op = "__init__" -> r = Returned(PNone)
      [] f.op = "get" -> r = Returned(PNone)
      [] f.op \in {"set", "delete"} -> r = Returned(PBool(FALSE))
      [] f.op \in {"invalidate_pattern", "clear_all", "warm_cache"} -> r = Returned(PInt(0))
      [] f.op = "get_stats" -> r = Returned(StatsDisabled)
      [] f.op = "wrapper" -> /\ f.execs = 1
                             /\ \E p \in Procs : r = Returned(func_result(p, f.q, graphVer))
      [] OTHER -> FALSE

\* C10: constructing a cache while the store is unreachable does not raise, and on the
\* instance so built every operation is a no-op, also once the store answers again: it
\* takes no step on the store, leaves the store as it is, and returns None (get), False
\* (set, delete), 0 (invalidate_pattern, clear_all, warm_cache) or the disabled report
\* (get_stats); a decorated method executes the wrapped function once per call and
\* returns its result.
C10_UnreachableAtConstructionIsNoOp ==
    /\ [][\A p \in Procs :
            /\ (client[p] = "unbuilt" /\ ~up /\ pc[p] = "idle" /\ pc'[p] # "idle") =>
                  client'[p] = "none" /\ pc'[p] = "done" /\ ~ret'[p].raised
            /\ (client[p] = "none" /\ pc'[p] # pc[p]) =>
                  /\ store' = store
                  /\ client'[p] = "none"
                  /\ pc'[p] \in {"idle", "done"}]_vars
    /\ [](\A p \in Procs : (client[p] = "none" /\ pc[p] = "done") => NoOpResult(fr[p], ret[p]))

\* the store answers again and holds the entry; on the cache built while it did not,
\* a decorated call has executed the function, and another caller's set returned False
C10_Witness ==
    \E p, q \in Procs :
        /\ up /\ DownKey \in DOMAIN store
        /\ client[p] = "none" /\ pc[p] = "done" /\ fr[p].op = "wrapper"
        /\ fr[p].execs = 1 /\ ret[p] = Returned(func_result(p, Q1, graphVer))
        /\ client[q] = "none" /\ pc[q] = "done" /\ fr[q].op = "set"
        /\ ret[q] = Returned(PBool(FALSE))

(***************************************************************************)
(* Claims about a store that fails after construction (SpecFail).          *)
(***************************************************************************)
\* what an operation that met a store error hands to its caller
DegradedResult(f, r) ==
    CASE f.op = "get" -> r = Returned(PNone)
      [] f.op \in {"set", "delete"} -> r = Returned(PBool(FALSE))
      [] f.op \in {"invalidate_pattern", "clear_all"} -> r = Returned(PInt(0))
      [] f.op = "wrapper" -> /\ f.execs = 1
                             /\ \E p \in Procs : f.val = func_result(p, f.q, graphVer)
                             /\ r = Returned(f.val)
      [] OTHER -> FALSE

Field(d, name) ==
    LET i == CHOOSE i \in DOMAIN d.items : d.items[i].items[1] = PStr(name)
    IN  d.items[i].items[2]
StatsDone(p) == pc[p] = "done" /\ fr[p].op = "get_stats" /\ ~fr[p].err
ResetDone(p) == pc[p] = "done" /\ fr[p].op = "reset_stats" /\ ~fr[p].err

\* C12: the report of get_stats on a connected cache has total_requests = hits +
\* misses and a hit rate that is hits / total_requests as a percentage (to the nearest
\* hundredth, as reported), between 0 and 100, and 0 when there have been no requests;
\* when reset_stats has returned, and no get counted since it started, both counters
\* read 0.
C12_StatsReportAndReset ==
    /\ \A p \in Procs : StatsDone(p) =>
          LET r     == ret[p].val
              hits  == Field(r, "hits").n
              total == Field(r, "total_requests").n
              rate  == Field(r, "hit_rate_percent").n
          IN  /\ total = hits + Field(r, "misses").n
              /\ 0 <= rate /\ rate <= 10000
              /\ total = 0 => rate = 0
              /\ total > 0 =>
                    /\ 2 * (rate * total - hits * 10000) <= total
                    /\ 2 * (hits * 10000 - rate * total) <= total
    /\ \A p \in Procs : (ResetDone(p) /\ getsDone = fr[p].seen) =>
          Hits(store) = 0 /\ Misses(store) = 0

\* a report of one hit in three requests gives a rate of 33.33, and a reset_stats
\* that started after those three requests has left both counters at 0
C12_Witness ==
    \E p, q \in Procs :
        /\ StatsDone(p) /\ Field(ret[p].val, "hits").n = 1
        /\ Field(ret[p].val, "total_requests").n = 3
        /\ Field(ret[p].val, "hit_rate_percent").n = 3333
        /\ ResetDone(q) /\ fr[q].seen = 3 /\ Hits(store) = 0 /\ Misses(store) = 0


(***************************************************************************)
(* C13: format_multihop_query(d) raises and gives no query for every d     *)
(* outside 1..5; for d in 1..5 it gives the multihop query whose path      *)
(* bound is *1..d; it runs no query itself, and a multihop query that ran  *)
(* has a depth in 1..5.                                                    *)
(***************************************************************************)
C13_DepthBoundEnforced ==
    /\ qcall.op = "format_multihop_query" =>
          /\ qcall.rows = <<>> /\ qcall.entities = <<>>
          /\ qcall.depth \notin 1..5 => qcall.raised /\ qcall.query = NoCypher
          /\ qcall.depth \in 1..5 =>
                /\ ~qcall.raised
                /\ qcall.query.name = "multihop_traversal"
                /\ qcall.query.lo = 1 /\ qcall.query.hi = qcall.depth
                /\ qcall.query.cap = qcall.depth
    /\ qcall.op = "multihop_traversal" =>
          qcall.depth \in 1..5 /\ qcall.query.lo = 1 /\ qcall.query.hi = qcall.depth

\* depth 6 was rejected (0 and 5 are the neighbouring cases, reached the same way)
C13_Witness ==
    /\ qcall.op = "format_multihop_query" /\ qcall.depth = 6
    /\ qcall.raised /\ qcall.query = NoCypher

(***************************************************************************)
(* C14 (refuted by the query): the multihop result holds each document id  *)
(* at most once, with hop_count the length of the shortest path of the     *)
(* query's types, of length 1..max_depth, from a matched start entity to   *)
(* an entity the document holds.                                           *)
(***************************************************************************)
MultihopDone == qcall.op = "multihop_traversal"

\* the lengths of the paths of the given types that lead to an entity d holds
PathLengthsTo(types, d) ==
    {k \in 1..qcall.depth :
        \E m \in Matched(qcall.entities) :
        \E p \in paths_of_length(graph, types, m.node, k) :
            IsEntity(p[k].dst) /\ Rel(d, "CONTAINS_ENTITY", p[k].dst) \in graph}

C14_OneRowPerDocumentWithShortestPath ==
    MultihopDone =>
        /\ \A i, j \in DOMAIN qcall.rows :
              qcall.rows[i].doc_id = qcall.rows[j].doc_id => i = j
        /\ \A i \in DOMAIN qcall.rows :
              LET r == qcall.rows[i]
              IN  r.hop_count = MinOf(PathLengthsTo(multihop_types, r.doc_id))

(***************************************************************************)
(* C15 (refuted by the query): every document that holds an entity         *)
(* reachable from a matched entity by a directed path of length            *)
(* 1..max_depth over the five relationship types of relationship expansion *)
(* is a multihop result, when the limit cuts nothing.                      *)
(***************************************************************************)
C15_MultihopUsesExpansionWhitelist ==
    (MultihopDone /\ Len(qcall.rows) < qcall.limit) =>
        \A d \in DocNodes :
            PathLengthsTo({"REQUIRES", "SATISFIED_BY", "DEPENDS_ON", "APPLIES_IF",
                           "CAN_TRANSITION_TO"}, d) # {} =>
                \E i \in DOMAIN qcall.rows : qcall.rows[i].doc_id = d

(***************************************************************************)
(* C16: the multihop rows come ordered by hop_count ascending, equal       *)
(* hop_counts by score descending; the limit is applied after the          *)
(* ordering: at most limit rows come back, all of them if there are no     *)
(* more than limit, and no row left out has a smaller hop_count (or the    *)
(* same hop_count and a greater score) than a row returned.                *)
(***************************************************************************)
RowsBefore(a, b) ==
    a.hop_count < b.hop_count \/ (a.hop_count = b.hop_count /\ a.score > b.score)

C16_MultihopOrderedThenLimited ==
    MultihopDone =>
        LET all == multihop_rows(graph, qcall.query, qcall.entities)
            got == {qcall.rows[i] : i \in DOMAIN qcall.rows}
            least == IF Cardinality(all) < qcall.limit THEN Cardinality(all) ELSE qcall.limit
        IN  /\ Len(qcall.rows) = least
            /\ Cardinality(got) = Len(qcall.rows)
            /\ got \subseteq all
            /\ \A i, j \in DOMAIN qcall.rows :
                  i < j => ~RowsBefore(qcall.rows[j], qcall.rows[i])
            /\ \A o \in all \ got : \A r \in got :
                  o.hop_count >= r.hop_count /\ ~RowsBefore(o, r)

\* three rows existed, of hop_count 1 and 2 and of two scores; limit 2 kept the two
\* of hop_count 1, the greater score first, and left the 2-hop row out
C16_Witness ==
    /\ MultihopDone /\ qcall.limit = 2 /\ Len(qcall.rows) = 2
    /\ qcall.rows[1].hop_count = 1 /\ qcall.rows[2].hop_count = 1
    /\ qcall.rows[1].score > qcall.rows[2].score
    /\ \E o \in multihop_rows(graph, qcall.query, qcall.entities) : o.hop_count = 2

(***************************************************************************)
(* C17: every row of relationship expansion stands for one relationship of *)
(* the graph that leaves an entity matched by an input string, has one of  *)
(* the five whitelisted types (so never CONTAINS_ENTITY) and ends at an    *)
(* Entity the row's document holds; relationship is its type and           *)
(* source_entity, target_entity the texts of its two ends.  No row comes   *)
(* from a relationship followed against its direction or from two hops.    *)
(***************************************************************************)
ExpansionDone == qcall.op = "relationship_expansion"

MatchedByInput(n) ==
    \E i \in DOMAIN qcall.entities : \E m \in fulltext_queryNodes(qcall.entities[i]) : m.node = n

C17_ExpansionIsOneDirectedHop ==
    ExpansionDone =>
        \A i \in DOMAIN qcall.rows :
            LET r == qcall.rows[i]
            IN  \E x \in graph :
                  /\ x.type \in {"REQUIRES", "SATISFIED_BY", "DEPENDS_ON", "APPLIES_IF",
                                 "CAN_TRANSITION_TO"}
                  /\ x.type = r.relationship
                  /\ MatchedByInput(x.src) /\ x.dst \in EntityNodes
                  /\ TextOf(x.src) = r.source_entity /\ TextOf(x.dst) = r.target_entity
                  /\ [src |-> r.doc_id, type |-> "CONTAINS_ENTITY", dst |-> x.dst] \in graph

\* the graph holds e3 -REQUIRES-> e1 and e1 -CONTAINS_ENTITY-> e4 and a two-hop chain
\* from e1 to e3, d1 holds e3 and d2 holds e2 and e4; expansion from "visa" (e1, e2
\* and e4 match, e3 does not) gave d2 over e1 -REQUIRES-> e2 and d1 over
\* e2 -REQUIRES-> e3 only
C17_Witness ==
    /\ ExpansionDone /\ qcall.entities = <<"visa">> /\ qcall.limit = 2
    /\ {Rel("e3", "REQUIRES", "e1"), Rel("e1", "CONTAINS_ENTITY", "e4"),
        Rel("e1", "REQUIRES", "e2"), Rel("e2", "REQUIRES", "e3"),
        Rel("d2", "CONTAINS_ENTITY", "e2"), Rel("d2", "CONTAINS_ENTITY", "e4")} \subseteq graph
    /\ Rel("e1", "DEPENDS_ON", "e3") \notin graph
    /\ Rel("e1", "CAN_TRANSITION_TO", "e4") \notin graph
    /\ Len(qcall.rows) = 2
    /\ qcall.rows[1].doc_id = "d2" /\ qcall.rows[1].relationship = "REQUIRES"
    /\ qcall.rows[1].source_entity = "Skilled Worker visa"
    /\ qcall.rows[1].target_entity = "Student visa"
    /\ qcall.rows[2].doc_id = "d1" /\ qcall.rows[2].source_entity = "Student visa"
    /\ qcall.rows[2].target_entity = "English test"

(***************************************************************************)
(* C18: direct search returns each document id at most once; a row's       *)
(* matched_entities holds at most 5 texts, all distinct and each the text  *)
(* of a matched entity the document holds; every returned document holds   *)
(* an entity matched by an input string; at most limit rows come back.     *)
(***************************************************************************)
DirectDone == qcall.op = "direct_entity_search"

C18_DirectRowsAreDeduplicatedAndCapped ==
    DirectDone =>
        /\ Len(qcall.rows) <= qcall.limit
        /\ \A i, j \in DOMAIN qcall.rows :
              qcall.rows[i].doc_id = qcall.rows[j].doc_id => i = j
        /\ \A i \in DOMAIN qcall.rows :
              LET r == qcall.rows[i]
                  held == {e \in EntityNodes :
                              /\ MatchedByInput(e)
                              /\ [src |-> r.doc_id, type |-> "CONTAINS_ENTITY", dst |-> e] \in graph}
              IN  /\ held # {}
                  /\ Cardinality(r.matched_entities) <= 5
                  /\ r.matched_entities \subseteq {TextOf(e) : e \in held}
                  /\ r.entity_count = Cardinality(held)

\* d1 holds seven entities that match "visa", of six distinct texts, of which the
\* row keeps five; d2 holds one and comes second
C18_Witness ==
    /\ DirectDone /\ qcall.entities = <<"visa", "visa">> /\ qcall.limit = 2
    /\ Len(qcall.rows) = 2
    /\ qcall.rows[1].doc_id = "d1" /\ qcall.rows[1].entity_count = 7
    /\ Cardinality(qcall.rows[1].matched_entities) = 5
    /\ qcall.rows[2].doc_id = "d2" /\ qcall.rows[2].entity_count = 1

(***************************************************************************)
(* C19: in the fused result the graph_score of a document is the sum, over *)
(* the strategies that found it, of 1.0 for direct, 0.8 for expanded and   *)
(* 0.6 / hop_count for multihop (scores in units of 1/300): direct only    *)
(* 300, expanded only 240, multihop at 2 hops 90 and at 3 hops 60, direct  *)
(* plus expanded 540.                                                      *)
(***************************************************************************)
MergeDone == qcall.op = "merge_and_rank"

InList(docs, id) == \E i \in DOMAIN docs : docs[i].id = id
HopsIn(docs, id) == {docs[i].hop_count : i \in {j \in DOMAIN docs : docs[j].id = id}}

C19_ScoreLaw ==
    MergeDone =>
        \A i \in DOMAIN qcall.rows :
            LET r == qcall.rows[i]
                d == InList(qcall.direct, r.id)
                e == InList(qcall.expanded, r.id)
                m == InList(qcall.multihop, r.id)
            IN  /\ \E h \in (IF m THEN HopsIn(qcall.multihop, r.id) ELSE {1}) :
                      r.graph_score * h =
                          h * ((IF d THEN 300 ELSE 0) + (IF e THEN 240 ELSE 0))
                          + (IF m THEN 180 ELSE 0)
                /\ (d /\ ~e /\ ~m) => r.graph_score = 300
                /\ (~d /\ e /\ ~m) => r.graph_score = 240
                /\ (~d /\ ~e /\ m /\ HopsIn(qcall.multihop, r.id) = {2}) => r.graph_score = 90
                /\ (~d /\ ~e /\ m /\ HopsIn(qcall.multihop, r.id) = {3}) => r.graph_score = 60
                /\ (d /\ e /\ ~m) => r.graph_score = 540

\* doc1 found by direct and expanded (1.8), doc2 by multihop alone at 3 hops (0.2),
\* doc3 by expanded alone (0.8)
C19_Witness ==
    /\ MergeDone /\ Len(qcall.rows) = 3
    /\ qcall.rows[1].id = "doc1" /\ qcall.rows[1].graph_score = 540
    /\ qcall.rows[1].strategies = {"direct", "expanded"}
    /\ qcall.rows[2].id = "doc3" /\ qcall.rows[2].graph_score = 240
    /\ qcall.rows[3].id = "doc2" /\ qcall.rows[3].graph_score = 60
    /\ qcall.rows[3].hop_count = 3

(***************************************************************************)
(* C20: the fused list holds every document id that occurs in one of the   *)
(* three lists, and each exactly once: its ids are pairwise distinct and   *)
(* its length is the number of distinct ids of the inputs.                 *)
(***************************************************************************)
C20_FusionDeduplicatesWithoutLoss ==
    MergeDone =>
        LET inputs == {qcall.direct[i].id : i \in DOMAIN qcall.direct}
                      \cup {qcall.expanded[i].id : i \in DOMAIN qcall.expanded}
                      \cup {qcall.multihop[i].id : i \in DOMAIN qcall.multihop}
        IN  /\ \A i, j \in DOMAIN qcall.rows : qcall.rows[i].id = qcall.rows[j].id => i = j
            /\ {qcall.rows[i].id : i \in DOMAIN qcall.rows} = inputs
            /\ Len(qcall.rows) = Cardinality(inputs)

\* doc1 came from direct and multihop, doc2 from direct and twice from expansion;
\* the fused list holds doc2 and doc1 once each
C20_Witness ==
    /\ MergeDone
    /\ InList(qcall.direct, "doc1") /\ InList(qcall.multihop, "doc1")
    /\ qcall.expanded = <<Doc("doc2", 0), Doc("doc2", 0)>>
    /\ Len(qcall.direct) = 2 /\ InList(qcall.direct, "doc2")
    /\ Len(qcall.rows) = 2
    /\ qcall.rows[1].id = "doc2" /\ qcall.rows[2].id = "doc1"

(***************************************************************************)
(* C21: the fused list is sorted by graph_score descending, equal scores   *)
(* by strategy priority (direct, then expanded, then multihop) and then by *)
(* document id; the order between any two records is strict, so the        *)
(* ranking is fixed by the three lists; a document found by both direct    *)
(* and expanded search comes before every document that was not.           *)
(***************************************************************************)
\* 1, 2, 3 for a record whose best strategy is direct, expanded, multihop
BestStrategy(id) ==
    IF InList(qcall.direct, id) THEN 1 ELSE IF InList(qcall.expanded, id) THEN 2 ELSE 3

\* the place of a document id in the order of the ids
IdPlace(id) == CHOOSE n \in 1..3 : <<"doc1", "doc2", "doc3">>[n] = id

C21_FusedListIsRanked ==
    MergeDone =>
        \A i, j \in DOMAIN qcall.rows :
            LET a == qcall.rows[i]
                b == qcall.rows[j]
            IN  /\ i < j =>
                    \/ a.graph_score > b.graph_score
                    \/ /\ a.graph_score = b.graph_score
                       /\ \/ BestStrategy(a.id) < BestStrategy(b.id)
                          \/ /\ BestStrategy(a.id) = BestStrategy(b.id)
                             /\ IdPlace(a.id) < IdPlace(b.id)
                /\ ( /\ InList(qcall.direct, a.id) /\ InList(qcall.expanded, a.id)
                     /\ ~(InList(qcall.direct, b.id) /\ InList(qcall.expanded, b.id)) ) => i < j

\* three documents of one score (1.0): doc2 and doc3 found by direct search, doc1 by
\* expansion and by multihop at 3 hops; the direct ones come first, in id order
C21_Witness ==
    /\ MergeDone /\ Len(qcall.rows) = 3
    /\ qcall.rows[1].id = "doc2" /\ qcall.rows[2].id = "doc3" /\ qcall.rows[3].id = "doc1"
    /\ \A i \in 1..3 : qcall.rows[i].graph_score = 300
    /\ qcall.rows[3].strategies = {"expanded", "multihop"}

(***************************************************************************)
(* C22: of two documents found by multihop traversal alone with hop counts *)
(* h1 < h2, the h1 document stands before the h2 document in the fused     *)
(* list.                                                                   *)
(***************************************************************************)
OnlyMultihop(id) ==
    InList(qcall.multihop, id) /\ ~InList(qcall.direct, id) /\ ~InList(qcall.expanded, id)

C22_FewerHopsRankFirst ==
    MergeDone =>
        \A i, j \in DOMAIN qcall.rows :
            ( /\ OnlyMultihop(qcall.rows[i].id) /\ OnlyMultihop(qcall.rows[j].id)
              /\ \E h1 \in HopsIn(qcall.multihop, qcall.rows[i].id) :
                 \E h2 \in HopsIn(qcall.multihop, qcall.rows[j].id) : h1 < h2 ) => i < j

\* doc3 at 2 hops stands before doc1 at 3 hops, both found by multihop alone
C22_Witness ==
    /\ MergeDone /\ qcall.direct = <<>> /\ qcall.expanded = <<>>
    /\ Len(qcall.rows) = 2
    /\ qcall.rows[1].id = "doc3" /\ qcall.rows[1].hop_count = 2
    /\ qcall.rows[2].id = "doc1" /\ qcall.rows[2].hop_count = 3

(***************************************************************************)
(* C23: for every top_k >= 0 and every outcome of the three strategies,    *)
(* failures included, run returns at most top_k documents: the first       *)
(* min(top_k, n) documents of the fused ranking of the three lists, in     *)
(* ranking order.                                                          *)
(***************************************************************************)
RunReturned == run.pc = "returned"
RunRanking == merge_and_rank(run.direct, run.expanded, run.multihop)

C23_TopK ==
    RunReturned =>
        /\ Len(run.documents) <= run.top_k
        /\ Len(run.documents) =
              (IF Len(RunRanking) < run.top_k THEN Len(RunRanking) ELSE run.top_k)
        /\ \A i \in DOMAIN run.documents : run.documents[i].id = RunRanking[i].id

\* expansion failed, the other two strategies found a document each, top_k = 1 kept
\* the first of the two
C23_Witness ==
    /\ RunReturned /\ run.top_k = 1 /\ run.failed = {"expanded"}
    /\ Len(RunRanking) = 2 /\ Len(run.documents) = 1
    /\ run.documents[1].id = RunRanking[1].id

(***************************************************************************)
(* C24: graph_paths holds one explanation record per returned document, in *)
(* the order of documents, with document_id, strategy and graph_score of   *)
(* that document and its strategy-specific fields (matched_entities,       *)
(* traversal_path, relationship_types, hop_count); no graph-store query is *)
(* issued beside the one of each strategy.                                 *)
(***************************************************************************)
C24_OneExplanationPerDocument ==
    RunReturned =>
        /\ Len(run.graph_paths) = Len(run.documents)
        /\ \A i \in DOMAIN run.documents :
              LET d == run.documents[i]
                  g == run.graph_paths[i]
              IN  /\ g.document_id = d.id
                  /\ g.strategy = d.retrieval_strategy
                  /\ g.graph_score = d.graph_score
                  /\ g.matched_entities = d.matched_entities
                  /\ g.traversal_path = d.traversal_path
                  /\ g.relationship_types = d.relationship_types
                  /\ g.hop_count = d.hop_count
        /\ run.store_calls = Cardinality(run.invoked)

\* two documents came back: one found by direct search, with matched_entities, and
\* one found by multihop at 2 hops, with a path of 3 labels; each has its record
C24_Witness ==
    /\ RunReturned /\ Len(run.documents) = 2 /\ Len(run.graph_paths) = 2
    /\ run.graph_paths[1].strategy = "direct" /\ run.graph_paths[1].matched_entities # <<>>
    /\ run.graph_paths[2].strategy = "multihop" /\ run.graph_paths[2].hop_count = 2
    /\ Len(run.graph_paths[2].traversal_path) = 3
    /\ run.graph_paths[2].document_id = run.documents[2].id

(***************************************************************************)
(* C25 as stated (refuted): whenever no entities are supplied and the      *)
(* extractor finds none, run returns empty documents and graph_paths       *)
(* without raising, invokes no strategy and issues no graph-store query.   *)
(***************************************************************************)
RunCalled == run.pc # "idle"

EmptyResult ==
    /\ RunReturned /\ ~run.raised
    /\ run.documents = <<>> /\ run.graph_paths = <<>>
    /\ run.invoked = {} /\ run.store_calls = 0

ResultOf(strategy) ==
    CASE strategy = "direct" -> run.direct
      [] strategy = "expanded" -> run.expanded
      [] strategy = "multihop" -> run.multihop

C26_DegradeOnStoreError ==
    run.failed # {} =>
        /\ ~run.raised /\ run.pc \in {"strategies", "returned"}
        /\ \A s \in run.failed : ResultOf(s) = <<>>
        /\ RunReturned =>
              /\ Len(run.graph_paths) = Len(run.documents)
              /\ \A i \in DOMAIN run.documents :
                    /\ run.documents[i].id = RunRanking[i].id
                    /\ \E s \in Strategies \ run.failed : InList(ResultOf(s), run.documents[i].id)
              /\ Len(RunRanking) <= run.top_k => Len(run.documents) = Len(RunRanking)
              /\ run.failed = Strategies => run.documents = <<>> /\ run.graph_paths = <<>>

\* direct search failed, expansion found doc1: run returned doc1
C26_Witness ==
    /\ RunReturned /\ run.failed = {"direct"} /\ run.expanded = <<Doc("doc1", 0)>>
    /\ run.multihop = <<>> /\ run.top_k = 2
    /\ Len(run.documents) = 1 /\ run.documents[1].id = "doc1"

(***************************************************************************)
(* C27: on a retriever whose driver is None run raises to the caller: no   *)
(* strategy is invoked, no graph-store query is issued and no documents    *)
(* are returned.                                                           *)
(***************************************************************************)
C27_NoDriverIsFatal ==
    (RunCalled /\ run.driver = "none") =>
        /\ run.pc = "raised" /\ run.raised
        /\ run.invoked = {} /\ run.store_calls = 0
        /\ run.documents = <<>> /\ run.graph_paths = <<>>

C27_Witness ==
    /\ run.driver = "none" /\ run.raised /\ run.entities = <<"visa">> /\ run.top_k = 2

WrapperDone(p) == pc[p] = "done" /\ fr[p].op = "wrapper"
\* the key of the call was in the store, unexpired, when the call read it
FoundCached(p) == fr[p].data.some
\* the entry the decorator is to leave for a computed result
StoredByWrapper(p) ==
    /\ fr[p].key = KeyOf(fr[p].q)
    /\ fr[p].key \in DOMAIN store
    /\ store[fr[p].key] = [val |-> json_dumps(fr[p].val, FALSE), ttl |-> fr[p].ttl.n]

\* C29: on a connected cache a decorated call that finds a cached value returns it
\* without executing the wrapped function; a call that misses executes it once,
\* stores a non-None result under the key of its name and arguments with the
\* decorator's ttl and returns it; a raising wrapped function stores nothing and
\* its exception propagates.
C29_CacheAsideProtocol ==
    /\ [](\A p \in Procs : WrapperDone(p) =>
            /\ FoundCached(p) =>
                  /\ fr[p].execs = 0
                  /\ ret[p] = Returned(json_loads(fr[p].data.val))
            /\ ~FoundCached(p) =>
                  /\ fr[p].execs = 1
                  /\ ~ret[p].raised =>
                        /\ ret[p].val = func_result(p, fr[p].q, graphVer)
                        /\ ret[p].val # PNone => StoredByWrapper(p))
    /\ [][\A p \in Procs :
            pc[p] = "w_exec" /\ pc'[p] = "done" /\ ret'[p].raised => store' = store]_vars

\* C30: with cache_none=False a None result never reaches the store; with
\* cache_none=True it is stored, and a repeated identical call that finds the
\* entry unexpired does not execute the wrapped function again.
C30_CacheNoneControlsNone ==
    /\ \A p \in Procs : pc[p] = "w_set" => fr[p].val # PNone \/ fr[p].cache_none
    /\ \A p \in Procs : WrapperDone(p) /\ fr[p].cache_none /\ FoundCached(p) =>
            fr[p].execs = 0 /\ fr[p].hit

\* C31: while the graph does not change, a decorated call returns a value equal to
\* the wrapped function's result for the same arguments, whether it was served from
\* the cache or computed.
C31_CachedEqualsComputed ==
    \A p \in Procs : WrapperDone(p) /\ ~ret[p].raised =>
        PyEq(ret[p].val, func_result(p, fr[p].q, graphVer))

\* C32: over a shared store a decorated call never returns a value computed by a
\* differently configured object for the same method and arguments; a result
\* served from the cache keeps within the top_k of the object that receives it.
C32_InstancesAreIsolated ==
    \A p \in Procs : WrapperDone(p) =>
        /\ ret[p].val = func_result(p, fr[p].q, graphVer)
        /\ fr[p].q = Q5 => Len(ret[p].val.items) <= top_k_of[p]

\* caller p is inside GraphQueryCache.__init__
Constructing(p) == fr[p].op = "__init__" /\ pc[p] # "done"
Counters == {HitsKey, MissesKey}

\* C33: constructing a GraphQueryCache never changes a hit or miss counter that
\* exists in the store, however the constructor's steps interleave with the get
\* calls of other instances; without reset_stats a counter never goes down.
C33_ConstructionKeepsCounters ==
    [][\A c \in Counters : c \in DOMAIN store =>
          /\ c \in DOMAIN store'
          /\ CounterValue(store', c) >= CounterValue(store, c)
          /\ (\E p \in Procs : Constructing(p) /\ pc'[p] # pc[p]) => store'[c] = store[c]]_vars

\* caller p runs the body of set in this step: for set itself, for warm_cache or
\* for the decorator
WriteStep(p) ==
    \/ pc[p] = "idle" /\ pc'[p] = "done" /\ fr'[p].op \in {"set", "warm_cache"}
    \/ pc[p] = "w_set" /\ pc'[p] = "done"
\* the step leaves under k an entry it did not find there
Written(k) == k \in DOMAIN store' /\ (k \notin DOMAIN store \/ store'[k] # store[k])

\* C34: every entry written by set (conditional or not), warm_cache and the
\* decorator carries a positive expiry; a ttl of None or 0 is replaced by
\* default_ttl; a write whose effective ttl is not positive stores nothing, and set
\* then returns False.
C34_EveryEntryExpires ==
    /\ [](\A k \in DOMAIN store \ Counters : store[k].ttl > 0)
    /\ [][\A p \in Procs : WriteStep(p) =>
            LET f == fr'[p]
                given == f.ttl
            IN  /\ Written(f.key) => store'[f.key].ttl = EffectiveTtl(given)
                /\ (given \in {PNone, PInt(0)} /\ (~f.nx \/ f.key \notin DOMAIN store)) =>
                      /\ f.key \in DOMAIN store'
                      /\ store'[f.key].ttl = default_ttl
                /\ (given.t = "int" /\ given.n < 0) =>
                      /\ store' = store
                      /\ f.op = "set" => ret'[p] = Returned(PBool(FALSE))]_vars

\* a set with ttl 0 has left an entry that expires after default_ttl, and a set with
\* a negative ttl on the absent key returned False
C34_Witness ==
    \E p, q \in Procs :
        /\ pc[p] = "done" /\ fr[p].op = "set" /\ fr[p].ttl = PInt(0)
        /\ ret[p] = Returned(PBool(TRUE))
        /\ fr[p].key \in DOMAIN store /\ store[fr[p].key].ttl = default_ttl
        /\ pc[q] = "done" /\ fr[q].op = "warm_cache" /\ fr[q].ttl = PInt(-1)
        /\ ret[q] = Returned(PInt(0))

\* C35: get_graph_cache hands the same instance to every caller of the process,
\* callers racing on the first call included: at most one instance is ever
\* constructed, and once _graph_cache is set no later call, whatever its redis_url,
\* replaces it.
C35_OneInstancePerProcess ==
    /\ [](Cardinality(singleton.returned) <= 1)
    /\ [](Len(singleton.instances) <= 1)
    /\ [][singleton.global # 0 => singleton'.global = singleton.global]_vars

\* text is prefix + method + ':' + digest_length hexadecimal digits
MethodKeyForm(text, prefix, method) ==
    LET head == Chars(prefix) \o Chars(method) \o <<":">>
    IN  /\ Len(text) = Len(head) + digest_length
        /\ SubSeq(text, 1, Len(head)) = head
        /\ \A i \in Len(head) + 1 .. Len(text) : text[i] = "x"
\* the keys a step of an invalidation removes
RemovedBy(p) == IF fr'[p] # fr[p] /\ pc[p] = "inv_del" THEN DOMAIN store \ DOMAIN store' ELSE {}

\* C36: every key cache_key derives for method m reads key_prefix + m + ':' + 16
\* hexadecimal digits; invalidate_pattern(key_prefix + m + ':*') removes every entry
\* of method m and no entry of a method with another name; clear_all removes the
\* entries of all methods.
C36_MethodScopedInvalidation ==
    /\ [](\A q \in ScopeQueries :
            MethodKeyForm(key_text(KeyOf(q)), default_key_prefix, q.method))
    /\ [](\A p \in Procs : InvDone(p) =>
            \A k \in ScopeKeys :
                (fr[p].op = "clear_all" \/ k.name = fr[p].pat.name) => k \notin DOMAIN store)
    /\ [][\A p \in Procs : \A k \in RemovedBy(p) :
            /\ k \in ScopeKeys
            /\ fr[p].op = "invalidate_pattern" => k.name = fr[p].pat.name]_vars

\* the invalidation of method run has removed its two entries and has left the entry
\* of run_all and that of search
C36_Witness ==
    \E p \in Procs :
        /\ InvDone(p) /\ fr[p].op = "invalidate_pattern" /\ fr[p].pat.name = "run"
        /\ ret[p].val = PInt(2)
        /\ KeyOf(Q6) \in DOMAIN store /\ KeyOf(Q3) \in DOMAIN store
        /\ KeyOf(Q1) \notin DOMAIN store /\ KeyOf(Q2) \notin DOMAIN store

\* C37: format_visualization_query(depth) returns the visualization query with its
\* path bound set to depth for every depth of 1..4, and raises ValueError for every
\* other integer depth.
C37_VisualizationDepthBound ==
    qcall.op = "format_visualization_query" =>
        IF qcall.depth \in visualization_min_depth..visualization_max_depth
        THEN /\ ~qcall.raised
             /\ qcall.query.name = "visualization_data"
             /\ qcall.query.hi = qcall.depth /\ qcall.query.cap = qcall.depth
        ELSE qcall.raised /\ qcall.error = "ValueError"

\* the entries of a batch that are mappings with 'method' and 'result'
WellFormed(b) == {i \in DOMAIN b : entry_error(b[i]) = ""}
\* the entry caller p's warm_cache handles in this step
EntryOf(p) == IF pc[p] = "idle" THEN Head(fr'[p].batch) ELSE Head(fr[p].queue)

\* C38: warm_cache skips an entry that lacks 'method' or 'result' or is no mapping:
\* it does not raise and writes nothing for it; every other entry of the batch is
\* still handled, so the count returned and the entries stored are those of the
\* well-formed entries.
C38_WarmSkipsMalformedEntries ==
    /\ [][\A p \in Procs : (WarmStep(p) /\ entry_error(EntryOf(p)) # "") =>
            /\ store' = store
            /\ fr'[p].count = fr[p].count
            /\ pc'[p] = "done" => ret'[p] = Returned(PInt(fr'[p].count))]_vars
    /\ [](\A p \in Procs : (pc[p] = "done" /\ fr[p].op = "warm_cache") =>
            LET b == fr[p].batch IN
            /\ ~ret[p].raised
            /\ fr[p].queue = <<>>
            /\ ret[p].val = PInt(fr[p].removed)
            /\ fr[p].removed <= Cardinality({KeyOf(b[i].q) : i \in WellFormed(b)})
            /\ \A i \in WellFormed(b) : KeyOf(b[i].q) \in DOMAIN store)
    /\ [](\A k \in DOMAIN store \ Counters : k \in {KeyOf(e.q) : e \in WarmEntries})

\* a batch of a str followed by a well-formed entry has written that entry and
\* returned 1
C38_Witness ==
    \E p \in Procs :
        /\ pc[p] = "done" /\ fr[p].op = "warm_cache"
        /\ fr[p].batch = <<PStr("run"), WarmEntry(Q2, WarmResult, PNone)>>
        /\ ret[p] = Returned(PInt(1))
        /\ KeyOf(Q2) \in DOMAIN store /\ KeyOf(Q1) \notin DOMAIN store

\* caller p takes this step, and the operation the step belongs to
Acts(p) == pc'[p] # pc[p] \/ fr'[p] # fr[p]
OpOf(p) == IF pc[p] = "idle" THEN fr'[p].op ELSE fr[p].op
\* the part of the keyspace that is counters, and the part that is entries
CountersOf(st) == [k \in DOMAIN st \cap Counters |-> st[k]]
EntriesOf(st)  == [k \in DOMAIN st \ Counters |-> st[k]]

\* C39: with the default key prefix, get_stats and reset_stats leave every cached
\* entry as it is, get_stats leaves the counters as they are, and set, delete,
\* invalidate_pattern over the namespace, clear_all and warm_cache leave the
\* counters as they are: only get and reset_stats change them.
C39_FrameConditions ==
    [][\A p \in Procs : Acts(p) =>
          /\ OpOf(p) \in {"get_stats", "reset_stats"} => EntriesOf(store') = EntriesOf(store)
          /\ OpOf(p) = "get_stats" => store' = store
          /\ OpOf(p) \in {"set", "delete", "invalidate_pattern", "clear_all", "warm_cache"} =>
                CountersOf(store') = CountersOf(store)
          /\ CountersOf(store') # CountersOf(store) => OpOf(p) \in {"get", "reset_stats"}]_vars

\* a clear_all has removed the one entry and the hit counted before it still reads 1
C39_Witness ==
    \E p \in Procs :
        /\ pc[p] = "done" /\ fr[p].op = "clear_all" /\ ret[p] = Returned(PInt(1))
        /\ FrameKey \notin DOMAIN store
        /\ Hits(store) = 1
=============================================================================
